---- MODULE Spec2Model ----
(***************************************************************************)
(* Verification model of the SFCrime backend (wolfiesch/SFCrime):           *)
(*   - the Sync Engine   (app/services/ingestion.py, app/tasks/scheduler.py,*)
(*                        app/routers/health.py)                            *)
(*   - the Source Client (app/services/soda_client.py)                      *)
(*   - the secondary (Diachron) write path (app/services/diachron_*.py)     *)
(*   - the Live Broadcast Hub (app/websocket/manager.py, schemas.py)        *)
(*                                                                          *)
(* Three specifications share the variables of the module:                  *)
(*   SpecSync   one source (chosen in Init) with its scheduled job and, for *)
(*              incident reports, the manual trigger of health.py           *)
(*   SpecHub    the ConnectionManager                                       *)
(*   SpecRetry  SODAClient._request_with_retry                              *)
(*   SpecWriter DiachronWriter.write_fact / write_facts_batch, sequential   *)
(* Sources share no primary-store state, so a behaviour of SpecSync follows *)
(* one source; the part of the state that belongs to another specification  *)
(* keeps its initial value.                                                 *)
(*                                                                          *)
(* Encoding of Python's None: the string "none" for keys and labels, the    *)
(* number 0 for timestamps (real timestamps are 1..MaxTime).                *)
(***************************************************************************)
EXTENDS Integers, Sequences, FiniteSets, TLC

\* ---------------------------------------------------------------- bounds
MaxTime == 2          \* timestamps are 1..MaxTime
MaxUpstream == 2      \* rows the external dataset holds at most
MaxRuns == 3          \* sync runs started in one behaviour
MaxConns == 2         \* websockets that ever connect
MaxCalls == 2         \* calls in one broadcast
MaxCoord == 2         \* latitudes and longitudes are 0..MaxCoord
MaxBudget == 3        \* largest max_retries a client is built with
MaxPos == 3           \* fact coordinates are 0, 5, .. 5*MaxPos metres
MaxBatch == 2         \* facts in one write_facts_batch call
MaxFacts == 3         \* rows of location_facts
\* rows per batch: batch_size = 500 in ingestion.py, scaled down so that a
\* fetch of MaxUpstream records spans several batches
BatchSize == 1
MaxInstant == 10       \* instants are 1..MaxInstant
UnitsPerDay == 2       \* instants in a day
MaxClock == 4          \* the clock runs from 0 to MaxClock
RetentionSpan == 1     \* settings.dispatch_retention_hours (48 h), in instants
FetchCap == 1          \* records a fetch returns at most (safety_limit, scaled)
MaxRowId == 3          \* no job starts once the serial id has reached MaxRowId

\* ------------------------------------------------------ program constants
max_retries == 3      \* SODAClient.__init__ default
DedupMetres == 10     \* the ST_DWithin threshold of _find_or_create_location
safety_limit == 50000         \* fetch_all_dispatch_calls, fetch_all_incident_reports
range_safety_limit == 100000  \* fetch_incident_reports_range
default_batch_size == 1000    \* batch_size of the fetch_all_* signatures

Times == 1..MaxTime
Keys == {"k1", "k2"}
Sources == {"dispatch_calls", "incident_reports"}
Slots == {"sched", "manual"}

\* The triggers a source has: the APScheduler job (scheduler.py, at most one
\* instance of a job at a time) and, for incident reports only, the manual
\* endpoint POST /sync/incidents (health.py).
SlotsOf(s) == IF s = "incident_reports" THEN {"sched", "manual"} ELSE {"sched"}

\* ------------------------------------------------------------ raw records
\* A raw record of the external API, reduced to the fields the transformers
\* and adapters branch on:
\*   key     cad_number / incident_id                ("none" = absent)
\*   ts_fmt  shape of received_datetime / report_datetime:
\*             "std"     one of the three strptime formats of _parse_datetime
\*             "zulu"    ISO 8601 that only datetime.fromisoformat accepts
\*             "bad"     a string neither parser accepts
\*             "nonstr"  a JSON value that is not a string
\*             "missing" absent
\*   ts_t    the instant that field denotes at the source (0 if missing)
\*   upd     call_last_updated_at (dispatch only, 0 = absent)
\*   idate   incident_date (incidents only, 0 = absent)
\*   pt      coordinates: "none", "in" (inside the SF box), "out" (outside),
\*           "str" (a point object whose coordinates are strings)
Raw(k, f, t, u, d, p) ==
    [key |-> k, ts_fmt |-> f, ts_t |-> t, upd |-> u, idate |-> d, pt |-> p]

DispatchMenu ==
    {Raw(k, "std", t, t, 0, "in") : k \in Keys, t \in Times}
    \cup {Raw("none", "std", 1, 1, 0, "in"),
          Raw("k1", "missing", 0, 1, 0, "in"),
          Raw("k1", "zulu", 1, 1, 0, "in"),
          Raw("k2", "std", 1, 1, 0, "out"),
          Raw("k2", "std", 1, 1, 0, "str"),
          Raw("k1", "std", 1, 0, 0, "none")}

IncidentMenu ==
    {Raw(k, "std", t, 0, t, "in") : k \in Keys, t \in Times}
    \cup {Raw("none", "std", 1, 0, 1, "in"),
          Raw("k1", "bad", 1, 0, 0, "in"),
          Raw("k2", "nonstr", 1, 0, 0, "in"),
          Raw("k2", "std", 1, 0, 0, "out"),
          Raw("k1", "std", 1, 0, 0, "none")}

MenuOf(s) == IF s = "dispatch_calls" THEN DispatchMenu ELSE IncidentMenu

VARIABLES
    src,        \* the source this behaviour follows
    upstream,   \* rows of the external dataset
    primary,    \* rows of the source's primary table
    cp,         \* sync_checkpoints: source -> last_updated_at (0 = no row)
    run,        \* slot -> state of the sync_* call of that trigger
    facts,      \* rows of Diachron's location_facts
    writer,     \* diachron_writer._writer_instance
    dcfg,       \* settings.diachron_enabled as the deployment provides it
    nruns,      \* sync runs started so far
    \* --- ConnectionManager (websocket/manager.py)
    connections,  \* _connections: registered websocket -> ClientSubscription
    lock,         \* _lock: "free" or "broadcast" (held by a running broadcast)
    bc,           \* the broadcast call in progress / last finished
    disconnects,  \* websockets with a disconnect task created by _send_safe
    seen,         \* websockets that were ever accepted
    \* --- SODAClient._request_with_retry (soda_client.py)
    rq,           \* one call: budget, loop index, attempts made, sleeps, result
    \* --- DiachronWriter (diachron_writer.py), with `facts` above
    locations,    \* rows of Diachron's locations
    wr,           \* the write_fact / write_facts_batch call in progress or last made
    \* --- POST /sync/incidents/chunked (health.py)
    backfill,     \* the sync_incident_reports_range call
    \* --- sync_dispatch_calls_job (tasks/scheduler.py)
    job,          \* the job instance: the await it is suspended at
    \* --- diachron_adapter.py: one raw record on its way to a validity range
    conv,
    \* --- SODAClient.fetch_all_* (soda_client.py): one paginated fetch
    pg,
    \* --- datetime.now(UTC) as prune_old_dispatch_calls reads it
    clock,
    \* --- write_facts_batch calls of overlapping sync runs (diachron_writer.py)
    tx

syncVars == <<src, upstream, primary, cp, run, facts, writer, dcfg, nruns>>
hubVars == <<connections, lock, bc, disconnects, seen>>
retryVars == <<rq>>
extVars == <<locations, wr, backfill, job>>
calcVars == <<conv, pg, clock, tx>>

vars == <<syncVars, hubVars, retryVars, extVars, calcVars>>

\* ---------------------------------------------------------------- helpers
Max(a, b) == IF a >= b THEN a ELSE b
Min(a, b) == IF a <= b THEN a ELSE b

RECURSIVE SeqsOfSet(_)
\* all orderings of a finite set
SeqsOfSet(S) ==
    IF S = {} THEN {<<>>}
    ELSE UNION {{<<x>> \o s : s \in SeqsOfSet(S \ {x})} : x \in S}

\* IngestionService._parse_datetime: a datetime for the three literal
\* formats, None for everything else (missing value, other text, non-string)
ParseDatetime(fmt, t) == IF fmt = "std" THEN t ELSE 0

\* The field the source orders and filters by
\* ($order / $where of fetch_dispatch_calls and fetch_incident_reports)
SourceUpdated(s, r) == IF s = "dispatch_calls" THEN r.upd ELSE r.ts_t

\* since = None: no $where clause is sent
NoSince == 0 - 1

\* fetch_all_*: the rows with <field> > since ($where is only sent when
\* since is set; a null field never satisfies it), newest first
FetchWindow(s, since) ==
    {r \in upstream : IF since = NoSince THEN TRUE ELSE SourceUpdated(s, r) > since}

IsDescending(s, q) ==
    \A i, j \in 1..Len(q) : i < j => SourceUpdated(s, q[i]) >= SourceUpdated(s, q[j])

FetchResults(s, since) ==
    {q \in SeqsOfSet(FetchWindow(s, since)) : IsDescending(s, q)}

\* ------------------------------------------------------------ transformers
\* The values dict of one upsert: the natural key and the non-key columns the
\* model keeps (received_at / report_datetime, last_updated_at, incident_date,
\* location).
Values(k, a, u, d, l) == [key |-> k, anchor |-> a, upd |-> u, idate |-> d, loc |-> l]

\* IngestionService._parse_point: a point whenever the record carries
\* coordinates; the values are formatted into WKT as they come, with no
\* bounds check and no numeric check of a nested point object
ParsePoint(r) == r.pt

\* The loop body of sync_dispatch_calls up to the values dict: skips a record
\* without a parseable received_datetime or without cad_number
DispatchAccepts(r) == ParseDatetime(r.ts_fmt, r.ts_t) # 0 /\ r.key # "none"

DispatchValues(r) ==
    Values(r.key, ParseDatetime(r.ts_fmt, r.ts_t), r.upd, 0, ParsePoint(r))

\* IngestionService._transform_incident_record: None only without incident_id
IncidentAccepts(r) == r.key # "none"

IncidentValues(r) ==
    Values(r.key, ParseDatetime(r.ts_fmt, r.ts_t), 0, r.idate, ParsePoint(r))

Accepts(s, r) == IF s = "dispatch_calls" THEN DispatchAccepts(r) ELSE IncidentAccepts(r)
ValuesOf(s, r) == IF s = "dispatch_calls" THEN DispatchValues(r) ELSE IncidentValues(r)

\* the value that competes for the watermark: call_last_updated_at of a
\* dispatch record, report_datetime of a transformed incident
UpdatedOf(s, v) == IF s = "dispatch_calls" THEN v.upd ELSE v.anchor

RECURSIVE Transformed(_, _)
\* the accepted records of a fetch, transformed, in fetch order
Transformed(s, q) ==
    IF q = <<>> THEN <<>>
    ELSE IF Accepts(s, Head(q))
         THEN <<ValuesOf(s, Head(q))>> \o Transformed(s, Tail(q))
         ELSE Transformed(s, Tail(q))

\* latest_updated taken from the last record of the list
LatestOfLastRecord(s, vs, latest) ==
    IF vs = <<>> \/ UpdatedOf(s, vs[Len(vs)]) = 0 THEN latest
    ELSE UpdatedOf(s, vs[Len(vs)])

RECURSIVE LatestUpdated(_, _, _)
\* latest_updated: starts at the checkpoint read by the run and rises to the
\* largest last-updated value among the transformed records
LatestUpdated(s, vs, latest) ==
    IF vs = <<>> THEN latest
    ELSE LET u == UpdatedOf(s, Head(vs))
         IN  LatestUpdated(s, Tail(vs),
                           IF u # 0 /\ (latest = 0 \/ u > latest) THEN u ELSE latest)

\* ----------------------------------------------------------- primary store
\* A row: the serial id and the columns of Values.
RowOf(id, v) ==
    [id |-> id, key |-> v.key, anchor |-> v.anchor, upd |-> v.upd,
     idate |-> v.idate, loc |-> v.loc]

RECURSIVE MaxId(_)
MaxId(rows) ==
    IF rows = {} THEN 0
    ELSE LET x == CHOOSE y \in rows : TRUE
         IN  Max(x.id, MaxId(rows \ {x}))

\* the serial primary key of a new row
NextRowId(rows) == 1 + MaxId(rows)

\* a plain INSERT, without the ON CONFLICT clause
InsertOnly(rows, v) == rows \cup {RowOf(NextRowId(rows), v)}

\* insert(...).values(**values).on_conflict_do_update(index_elements=[key],
\* set_={every column of values but the key})
Upsert(rows, v) ==
    IF \E row \in rows : row.key = v.key
    THEN {IF row.key = v.key THEN RowOf(row.id, v) ELSE row : row \in rows}
    ELSE rows \cup {RowOf(NextRowId(rows), v)}

RECURSIVE UpsertAll(_, _)
UpsertAll(rows, vs) ==
    IF vs = <<>> THEN rows ELSE UpsertAll(Upsert(rows, Head(vs)), Tail(vs))

\* the keys of the upserted values, in order (upserted_cad_numbers)
KeysOf(vs) == [i \in 1..Len(vs) |-> vs[i].key]

\* the slice transformed[i:i + batch_size], i counted from 0
Batch(vs, i) == SubSeq(vs, i + 1, Min(Len(vs), i + BatchSize))

\* sync_dispatch_calls issues one commit for the whole fetch;
\* sync_incident_reports commits every batch_size rows
BatchOf(s, vs, i) == IF s = "dispatch_calls" THEN vs ELSE Batch(vs, i)

\* ------------------------------------------------------- secondary store
\* datetime.fromisoformat(text.replace("Z", "+00:00")) as the adapters use it:
\* "ok" with the instant, "ValueError" for text it rejects, "AttributeError"
\* for a value without .replace
FromIso(fmt) ==
    CASE fmt \in {"std", "zulu"} -> "ok"
      [] fmt = "bad" -> "ValueError"
      [] OTHER -> "AttributeError"

Reject == [tag |-> "reject", external_id |-> "none", kind_code |-> "none", valid_from |-> 0]
Raise == [tag |-> "raise", external_id |-> "none", kind_code |-> "none", valid_from |-> 0]
Fact(k, kind, t) == [tag |-> "fact", external_id |-> k, kind_code |-> kind, valid_from |-> t]

\* dispatch_call_dict_to_diachron: None without a point, outside the SF box,
\* without received_datetime or when it does not parse; comparing string
\* coordinates with the float bounds raises TypeError; cad_number is copied
\* into external_id without a check
DispatchToFact(r) ==
    CASE r.pt = "none" -> Reject
      [] r.pt = "str" -> Raise
      [] r.pt = "out" -> Reject
      [] r.ts_fmt = "missing" -> Reject
      [] FromIso(r.ts_fmt) # "ok" -> Reject
      [] OTHER -> Fact(r.key, "dispatch_call", r.ts_t)

\* incident_report_dict_to_diachron: None without coordinates or outside the
\* SF box; valid_from is incident_date when present, else report_datetime;
\* only ValueError is caught around fromisoformat; incident_id is copied into
\* external_id without a check
IncidentToFact(r) ==
    CASE r.pt = "none" -> Reject
      [] r.pt = "out" -> Reject
      [] r.idate # 0 -> Fact(r.key, "police_incident", r.idate)
      [] r.ts_fmt = "missing" -> Reject
      [] FromIso(r.ts_fmt) = "ValueError" -> Reject
      [] FromIso(r.ts_fmt) = "AttributeError" -> Raise
      [] OTHER -> Fact(r.key, "police_incident", r.ts_t)

ToFact(s, r) == IF s = "dispatch_calls" THEN DispatchToFact(r) ELSE IncidentToFact(r)

\* the conversion loop of _write_to_diachron over the raw records
Converted(s, q) == [i \in 1..Len(q) |-> ToFact(s, q[i])]

ConversionRaises(s, q) == \E i \in 1..Len(q) : ToFact(s, q[i]).tag = "raise"

FactsOf(s, q) == SelectSeq(Converted(s, q), LAMBDA f : f.tag = "fact")

FactRow(id, f) ==
    [id |-> id, external_id |-> f.external_id, kind_code |-> f.kind_code,
     valid_from |-> f.valid_from]

\* one iteration of write_facts_batch: look the fact up by
\* (external_id, kind) when external_id is set; update it in place, else
\* insert it under its fresh id
WriteFact(rows, f) ==
    IF f.external_id # "none"
       /\ \E x \in rows : x.external_id = f.external_id /\ x.kind_code = f.kind_code
    THEN {IF x.external_id = f.external_id /\ x.kind_code = f.kind_code
          THEN FactRow(x.id, f) ELSE x : x \in rows}
    ELSE rows \cup {FactRow(1 + MaxId(rows), f)}

RECURSIVE WriteFactsBatch(_, _)
WriteFactsBatch(rows, fs) ==
    IF fs = <<>> THEN rows ELSE WriteFactsBatch(WriteFact(rows, Head(fs)), Tail(fs))

\* ---------------------------------------------------------------- sync run
NoCheckpoint == [last_updated_at |-> 0, record_count |-> 0]

\* A sync_* call: pc is the await it is suspended at.
\*   cp0         the checkpoint the run read (0 = None)
\*   since       lower bound sent to the source (NoSince = no $where)
\*   records     the fetched raw records
\*   transformed the accepted records as values dicts
\*   latest      latest_updated
\*   idx         index of the next batch's first row;  upserted  the counter
\*   result      "none" while running, "returned" or "raised"
\*   fail        the step that raised
\*   prior       the transformed list of this trigger's previous run when
\*               that run aborted on a batch commit after an earlier batch
\*               had committed (history, read by no action)
IdleRun ==
    [pc |-> "idle", cp0 |-> 0, since |-> NoSince, records |-> <<>>,
     transformed |-> <<>>, latest |-> 0, idx |-> 0, upserted |-> 0,
     keys |-> <<>>, result |-> "none", fail |-> "none", prior |-> <<>>]

\* the first-run window of sync_incident_reports is now - initial_days_back,
\* an instant the caller's clock decides; sync_dispatch_calls passes None
SeedTimes == 0..MaxTime

Returned(r, n, ks) ==
    [r EXCEPT !.pc = "done", !.result = "returned", !.upserted = n, !.keys = ks]

Raised(r, why) == [r EXCEPT !.pc = "done", !.result = "raised", !.fail = why]

\* The external dataset gains a row (or a new version of one). The dataset
\* is only read by Fetch and a change of it commutes with every other step,
\* so it is taken when a run is about to fetch.
SourcePublish(r) ==
    /\ r \in MenuOf(src) \ upstream
    /\ \E slot \in Slots : run[slot].pc = "fetching"
    /\ Cardinality(upstream) < MaxUpstream
    /\ upstream' = upstream \cup {r}
    /\ UNCHANGED <<hubVars, retryVars, calcVars, extVars, src, primary, cp, run, facts, writer, dcfg, nruns>>

\* A trigger fires and the run reads its checkpoint (get_checkpoint).
RunStart(slot, seed) ==
    /\ slot \in SlotsOf(src)
    /\ run[slot].pc \in {"idle", "done"}
    /\ nruns < MaxRuns
    /\ LET old == run[slot]
           c == cp[src].last_updated_at
           since == IF c # 0 THEN c
                    ELSE IF src = "dispatch_calls" THEN NoSince ELSE seed
       IN  run' = [run EXCEPT ![slot] =
                     [IdleRun EXCEPT !.pc = "fetching", !.cp0 = c, !.since = since,
                        !.prior = IF old.fail = "commit" /\ old.idx > 0
                                  THEN old.transformed ELSE <<>>]]
    /\ nruns' = nruns + 1
    /\ UNCHANGED <<hubVars, retryVars, calcVars, extVars, src, upstream, primary, cp, facts, writer, dcfg>>

\* fetch_all_* returns; the run transforms what it got. No records, or (for
\* incidents) no accepted record: the call returns 0 without touching anything.
Fetched(slot, q) ==
    /\ run[slot].pc = "fetching"
    /\ LET r == run[slot]
           vs == Transformed(src, q)
       IN  run' = [run EXCEPT ![slot] =
                IF q = <<>> THEN Returned(r, 0, <<>>)
                ELSE IF src = "incident_reports" /\ vs = <<>>
                THEN Returned([r EXCEPT !.records = q], 0, <<>>)
                ELSE [r EXCEPT !.pc = "upserting", !.records = q, !.transformed = vs,
                               !.latest = LatestUpdated(src, vs, r.cp0)]]
    /\ UNCHANGED <<hubVars, retryVars, calcVars, extVars, src, upstream, primary, cp, facts, writer, dcfg, nruns>>

Fetch(slot, q) ==
    /\ q \in FetchResults(src, run[slot].since)
    /\ Fetched(slot, q)

\* fetch_all_* against a window holding more records than its safety limit
\* lets through: the loop stops at the limit with the newest records, the
\* rest of the window is not requested
CappedResults(s, since) ==
    {SubSeq(q, 1, Min(Len(q), FetchCap)) : q \in FetchResults(s, since)}

FetchCapped(slot, q) ==
    /\ q \in CappedResults(src, run[slot].since)
    /\ Fetched(slot, q)

\* The publisher changes a record of the dataset: the row of its key is
\* replaced by a later version. Taken when a run is about to fetch, as
\* SourcePublish.
SourceUpdate(old, new) ==
    /\ old \in upstream
    /\ new \in MenuOf(src) \ upstream
    /\ new.key = old.key
    /\ SourceUpdated(src, new) > SourceUpdated(src, old)
    /\ \E slot \in Slots : run[slot].pc = "fetching"
    /\ upstream' = (upstream \ {old}) \cup {new}
    /\ UNCHANGED <<hubVars, retryVars, calcVars, extVars, src, primary, cp, run, facts, writer, dcfg, nruns>>

\* the failure handled by dropping the checkpoint to force a full re-sync
FetchFailResetsCheckpoint(slot) ==
    /\ run[slot].pc = "fetching"
    /\ run' = [run EXCEPT ![slot] = Raised(@, "fetch")]
    /\ cp' = [cp EXCEPT ![src] = NoCheckpoint]
    /\ UNCHANGED <<hubVars, retryVars, calcVars, extVars, src, upstream, primary, facts, writer, dcfg, nruns>>

\* The Source Client gives up (SODAClientError): the call raises.
FetchFail(slot) ==
    /\ run[slot].pc = "fetching"
    /\ run' = [run EXCEPT ![slot] = Raised(@, "fetch")]
    /\ UNCHANGED <<hubVars, retryVars, calcVars, extVars, src, upstream, primary, cp, facts, writer, dcfg, nruns>>

\* The upserts of one batch and their commit.
UpsertBatch(slot) ==
    /\ run[slot].pc = "upserting"
    /\ LET r == run[slot]
           b == BatchOf(src, r.transformed, r.idx)
           next == IF src = "dispatch_calls" THEN Len(r.transformed) ELSE r.idx + BatchSize
       IN  /\ primary' = UpsertAll(primary, b)
           /\ run' = [run EXCEPT ![slot] =
                    [r EXCEPT !.idx = next,
                              !.upserted = r.upserted + Len(b),
                              !.keys = r.keys \o KeysOf(b),
                              !.pc = IF next >= Len(r.transformed)
                                     THEN "checkpoint" ELSE "upserting"]]
    /\ UNCHANGED <<hubVars, retryVars, calcVars, extVars, src, upstream, cp, facts, writer, dcfg, nruns>>

\* the abort as it would be with update_checkpoint in a finally clause
CommitFailThenCheckpoint(slot) ==
    /\ run[slot].pc = "upserting"
    /\ run' = [run EXCEPT ![slot] = Raised(@, "commit")]
    /\ cp' = IF run[slot].latest # 0
             THEN [cp EXCEPT ![src] = [last_updated_at |-> run[slot].latest,
                                       record_count |-> Cardinality(primary)]]
             ELSE cp
    /\ UNCHANGED <<hubVars, retryVars, calcVars, extVars, src, upstream, primary, facts, writer, dcfg, nruns>>

\* The commit of the batch fails: its rows are rolled back and the call raises.
CommitFail(slot) ==
    /\ run[slot].pc = "upserting"
    /\ run' = [run EXCEPT ![slot] = Raised(@, "commit")]
    /\ UNCHANGED <<hubVars, retryVars, calcVars, extVars, src, upstream, primary, cp, facts, writer, dcfg, nruns>>

\* "if latest_updated:" count the rows and update_checkpoint (unconditional
\* overwrite of the row, then commit).
CheckpointAdvance(slot) ==
    /\ run[slot].pc = "checkpoint"
    /\ cp' = IF run[slot].latest # 0
             THEN [cp EXCEPT ![src] = [last_updated_at |-> run[slot].latest,
                                       record_count |-> Cardinality(primary)]]
             ELSE cp
    /\ run' = [run EXCEPT ![slot].pc = "diachron"]
    /\ UNCHANGED <<hubVars, retryVars, calcVars, extVars, src, upstream, primary, facts, writer, dcfg, nruns>>

\* ------------------------------------------- _write_to_diachron(records)
\* The call sits after the checkpoint commit, outside any try block except
\* for write_facts_batch itself. get_diachron_writer reads
\* settings.diachron_enabled; the Settings class of config.py declares no such
\* field ("missing": the read raises AttributeError), a deployment whose
\* settings carry it has it False ("disabled") or True ("enabled").
DiachronCfgs == {"missing", "disabled", "enabled"}

\* _writer_instance: "none"; "unconnected" (instance stored, connect() left
\* no pool); "connected"
WriterStates == {"none", "unconnected", "connected"}

Finish(slot) == Returned(run[slot], run[slot].upserted, run[slot].keys)

\* what get_diachron_writer hands back once it succeeds
WriterAfterGet == IF writer = "none" THEN "connected" ELSE writer

\* settings.diachron_enabled is not a field of Settings: AttributeError
\* leaves _write_to_diachron and the sync_* call.
DiachronSettingMissing(slot) ==
    /\ run[slot].pc = "diachron"
    /\ dcfg = "missing"
    /\ run' = [run EXCEPT ![slot] = Raised(@, "diachron_writer")]
    /\ UNCHANGED <<hubVars, retryVars, calcVars, extVars, src, upstream, primary, cp, facts, writer, dcfg, nruns>>

\* Integration disabled: (0, 0), the sync_* call returns its count.
DiachronDisabled(slot) ==
    /\ run[slot].pc = "diachron"
    /\ dcfg = "disabled"
    /\ run' = [run EXCEPT ![slot] = Finish(slot)]
    /\ UNCHANGED <<hubVars, retryVars, calcVars, extVars, src, upstream, primary, cp, facts, writer, dcfg, nruns>>

\* First use: _writer_instance is assigned, then connect() raises (no URL,
\* create_pool fails: no pool; _load_fact_kinds fails: pool kept). The
\* exception leaves get_diachron_writer, _write_to_diachron and sync_*.
DiachronConnectFail(slot, w) ==
    /\ run[slot].pc = "diachron"
    /\ dcfg = "enabled"
    /\ writer = "none"
    /\ w \in {"unconnected", "connected"}
    /\ writer' = w
    /\ run' = [run EXCEPT ![slot] = Raised(@, "diachron_writer")]
    /\ UNCHANGED <<hubVars, retryVars, calcVars, extVars, src, upstream, primary, cp, facts, dcfg, nruns>>

\* A *_dict_to_diachron call raises in the conversion loop.
DiachronConvertFail(slot) ==
    /\ run[slot].pc = "diachron"
    /\ dcfg = "enabled"
    /\ ConversionRaises(src, run[slot].records)
    /\ writer' = WriterAfterGet
    /\ run' = [run EXCEPT ![slot] = Raised(@, "diachron_convert")]
    /\ UNCHANGED <<hubVars, retryVars, calcVars, extVars, src, upstream, primary, cp, facts, dcfg, nruns>>

\* The facts are written in one transaction (or there are none to write).
DiachronWrite(slot) ==
    /\ run[slot].pc = "diachron"
    /\ dcfg = "enabled"
    /\ ~ConversionRaises(src, run[slot].records)
    /\ LET fs == FactsOf(src, run[slot].records)
       IN  /\ writer' = IF fs = <<>> THEN WriterAfterGet ELSE "connected"
           /\ facts' = WriteFactsBatch(facts, fs)
    /\ run' = [run EXCEPT ![slot] = Finish(slot)]
    /\ UNCHANGED <<hubVars, retryVars, calcVars, extVars, src, upstream, primary, cp, dcfg, nruns>>

\* write_facts_batch raises (the reconnect of an unconnected writer fails, or
\* a statement fails and the transaction rolls back): caught and logged.
DiachronWriteFail(slot, w) ==
    /\ run[slot].pc = "diachron"
    /\ dcfg = "enabled"
    /\ ~ConversionRaises(src, run[slot].records)
    /\ FactsOf(src, run[slot].records) # <<>>
    /\ w \in {"unconnected", "connected"}
    /\ WriterAfterGet = "connected" => w = "connected"
    /\ writer' = w
    /\ run' = [run EXCEPT ![slot] = Finish(slot)]
    /\ UNCHANGED <<hubVars, retryVars, calcVars, extVars, src, upstream, primary, cp, facts, dcfg, nruns>>

\* ------------------------------------------------------------ SpecSync
NextSync ==
    \/ \E r \in MenuOf(src) : SourcePublish(r)
    \/ \E slot \in Slots, seed \in SeedTimes : RunStart(slot, seed)
    \/ \E slot \in Slots : \E q \in FetchResults(src, run[slot].since) : Fetch(slot, q)
    \/ \E slot \in Slots : FetchFail(slot)
    \/ \E slot \in Slots : UpsertBatch(slot)
    \/ \E slot \in Slots : CommitFail(slot)
    \/ \E slot \in Slots : CheckpointAdvance(slot)
    \/ \E slot \in Slots : DiachronSettingMissing(slot)
    \/ \E slot \in Slots : DiachronDisabled(slot)
    \/ \E slot \in Slots, w \in WriterStates : DiachronConnectFail(slot, w)
    \/ \E slot \in Slots : DiachronConvertFail(slot)
    \/ \E slot \in Slots : DiachronWrite(slot)
    \/ \E slot \in Slots, w \in WriterStates : DiachronWriteFail(slot, w)


\* =================================================== Live Broadcast Hub
WS == 1..MaxConns

Prios == {"A", "C"}

\* Optional values carry a flag: set = FALSE is Python's None.
NoViewport == [set |-> FALSE, min_lat |-> 0, max_lat |-> 0, min_lng |-> 0, max_lng |-> 0]
VP(a, b, c, d) == [set |-> TRUE, min_lat |-> a, max_lat |-> b, min_lng |-> c, max_lng |-> d]
NoCoords == [set |-> FALSE, latitude |-> 0, longitude |-> 0]
Coords(la, lo) == [set |-> TRUE, latitude |-> la, longitude |-> lo]

\* the viewports clients send (Viewport validates no ordering of its bounds)
Viewports == {VP(0, 1, 0, 1), VP(1, 2, 2, 1)}

\* DispatchCallOut reduced to what ClientSubscription.matches reads;
\* priority "none" is a call without priority
Call(p, xy) == [priority |-> p, coordinates |-> xy]

Grid == 0..MaxCoord
AllCalls ==
    {Call(p, xy) : p \in Prios \cup {"B", "none"},
                   xy \in {NoCoords} \cup {Coords(la, lo) : la \in Grid, lo \in Grid}}

\* the calls the broadcasts of the model carry
CallMenu ==
    {Call("A", Coords(1, 1)), Call("C", Coords(2, 1)), Call("none", NoCoords)}

CallLists == UNION {[1..n -> CallMenu] : n \in 0..MaxCalls}

\* containment with the bounds excluded
ContainsExclusive(v, lat, lng) ==
    /\ v.min_lat < lat /\ lat < v.max_lat
    /\ v.min_lng < lng /\ lng < v.max_lng

\* Viewport.contains
Contains(v, lat, lng) ==
    /\ v.min_lat <= lat /\ lat <= v.max_lat
    /\ v.min_lng <= lng /\ lng <= v.max_lng

\* ClientSubscription(websocket=websocket): viewport None, priorities set()
NewSubscription == [viewport |-> NoViewport, priorities |-> {}]

\* ClientSubscription.matches
Matches(sub, call) ==
    IF sub.priorities # {} /\ call.priority \notin sub.priorities
    THEN FALSE
    ELSE IF sub.viewport.set /\ call.coordinates.set
            /\ ~Contains(sub.viewport, call.coordinates.latitude,
                         call.coordinates.longitude)
         THEN FALSE
         ELSE TRUE

\* matching_calls = [c for c in calls if subscription.matches(c)]
MatchingCalls(sub, calls) == SelectSeq(calls, LAMBDA c : Matches(sub, c))

\* CallUpdateMessage(data=matching_calls, timestamp=...)
CallUpdateMessage(data) == [type |-> "call_update", data |-> data]

\* A broadcast call:
\*   phase     "idle" (none yet), "sending" (inside gather, lock held), "done"
\*   calls     its argument
\*   plan      websocket -> matching_calls, for the subscribers it iterated
\*   tasks     the websockets it created a _send_safe task for
\*   pending   the tasks that have not finished
\*   delivered websocket -> the messages send_json delivered in this call
\*   failed    the websockets whose send_json raised in this call
NoBroadcast ==
    [phase |-> "idle", calls |-> <<>>, plan |-> [w \in WS |-> <<>>], tasks |-> {},
     pending |-> {}, delivered |-> [w \in WS |-> <<>>], failed |-> {}]

Remove(conns, w) == [x \in (DOMAIN conns) \ {w} |-> conns[x]]

\* ConnectionManager.connect: accept, then register under the lock
Connect(w) ==
    /\ lock = "free"
    /\ w \notin seen
    /\ connections' = [x \in (DOMAIN connections) \cup {w} |->
                         IF x = w THEN NewSubscription ELSE connections[x]]
    /\ seen' = seen \cup {w}
    /\ UNCHANGED <<syncVars, retryVars, calcVars, extVars, lock, bc, disconnects>>

\* ConnectionManager.disconnect, as the router calls it
Disconnect(w) ==
    /\ lock = "free"
    /\ connections' = IF w \in DOMAIN connections THEN Remove(connections, w)
                      ELSE connections
    /\ UNCHANGED <<syncVars, retryVars, calcVars, extVars, lock, bc, disconnects, seen>>

\* arguments of update_subscription: given = FALSE is an argument left None
NoArg == [given |-> FALSE, viewport |-> NoViewport, priorities |-> {}]
ViewportArgs == {NoArg} \cup {[NoArg EXCEPT !.given = TRUE, !.viewport = v] : v \in Viewports}
PriorityArgs == {NoArg} \cup {[NoArg EXCEPT !.given = TRUE, !.priorities = p] : p \in SUBSET Prios}

\* update_subscription assigning both arguments as they come
UpdateSubscriptionAssignsBoth(w, va, pa) ==
    /\ lock = "free"
    /\ connections' =
         IF w \in DOMAIN connections
         THEN [connections EXCEPT ![w] =
                 [viewport |-> va.viewport, priorities |-> pa.priorities]]
         ELSE connections
    /\ UNCHANGED <<syncVars, retryVars, calcVars, extVars, lock, bc, disconnects, seen>>

\* ConnectionManager.update_subscription
UpdateSubscription(w, va, pa) ==
    /\ lock = "free"
    /\ connections' =
         IF w \in DOMAIN connections
         THEN [connections EXCEPT ![w] =
                 [viewport |-> IF va.given THEN va.viewport ELSE @.viewport,
                  priorities |-> IF pa.given THEN pa.priorities ELSE @.priorities]]
         ELSE connections
    /\ UNCHANGED <<syncVars, retryVars, calcVars, extVars, lock, bc, disconnects, seen>>

\* the loop of broadcast without its "if matching_calls" test
BroadcastStartAll(calls) ==
    /\ lock = "free"
    /\ disconnects = {}
    /\ bc.phase # "sending"
    /\ LET subs == IF calls = <<>> THEN {} ELSE DOMAIN connections
           plan == [w \in WS |-> IF w \in subs
                                 THEN MatchingCalls(connections[w], calls) ELSE <<>>]
       IN  /\ bc' = [NoBroadcast EXCEPT !.phase = IF subs = {} THEN "done" ELSE "sending",
                                         !.calls = calls, !.plan = plan,
                                         !.tasks = subs, !.pending = subs]
           /\ lock' = IF subs = {} THEN "free" ELSE "broadcast"
    /\ UNCHANGED <<syncVars, retryVars, calcVars, extVars, connections, disconnects, seen>>

\* ConnectionManager.broadcast up to the gather: returns at once for no
\* calls, no connections or no matching subscriber; else holds the lock with
\* one _send_safe task per subscriber whose matching_calls is not empty.
\* asyncio.Lock wakes its waiters in order: the disconnect tasks of the
\* broadcast before, which wait for the lock since that broadcast held it,
\* have it before a broadcast called later.
BroadcastStart(calls) ==
    /\ lock = "free"
    /\ disconnects = {}
    /\ bc.phase # "sending"
    /\ LET subs == IF calls = <<>> THEN {} ELSE DOMAIN connections
           plan == [w \in WS |-> IF w \in subs
                                 THEN MatchingCalls(connections[w], calls) ELSE <<>>]
           tasks == {w \in subs : plan[w] # <<>>}
       IN  /\ bc' = [NoBroadcast EXCEPT !.phase = IF tasks = {} THEN "done" ELSE "sending",
                                         !.calls = calls, !.plan = plan,
                                         !.tasks = tasks, !.pending = tasks]
           /\ lock' = IF tasks = {} THEN "free" ELSE "broadcast"
    /\ UNCHANGED <<syncVars, retryVars, calcVars, extVars, connections, disconnects, seen>>

\* _send_safe: send_json succeeds
SendOk(w) ==
    /\ bc.phase = "sending"
    /\ w \in bc.pending
    /\ bc' = [bc EXCEPT !.pending = @ \ {w},
                        !.delivered[w] = Append(@, CallUpdateMessage(bc.plan[w]))]
    /\ UNCHANGED <<syncVars, retryVars, calcVars, extVars, connections, lock, disconnects, seen>>

\* a send failure as gather without return_exceptions would treat it: the
\* first exception ends the wait for the other tasks
SendFailAborts(w) ==
    /\ bc.phase = "sending"
    /\ w \in bc.pending
    /\ bc' = [bc EXCEPT !.pending = {}, !.failed = @ \cup {w}]
    /\ disconnects' = disconnects \cup {w}
    /\ UNCHANGED <<syncVars, retryVars, calcVars, extVars, connections, lock, seen>>

\* _send_safe: send_json raises; the exception is logged and
\* asyncio.create_task(self.disconnect(websocket)) is scheduled
SendFail(w) ==
    /\ bc.phase = "sending"
    /\ w \in bc.pending
    /\ bc' = [bc EXCEPT !.pending = @ \ {w}, !.failed = @ \cup {w}]
    /\ disconnects' = disconnects \cup {w}
    /\ UNCHANGED <<syncVars, retryVars, calcVars, extVars, connections, lock, seen>>

\* gather has every result: broadcast logs and leaves the lock
BroadcastEnd ==
    /\ bc.phase = "sending"
    /\ bc.pending = {}
    /\ bc' = [bc EXCEPT !.phase = "done"]
    /\ lock' = "free"
    /\ UNCHANGED <<syncVars, retryVars, calcVars, extVars, connections, disconnects, seen>>

\* the disconnect task created by _send_safe gets the lock
DisconnectTask(w) ==
    /\ lock = "free"
    /\ w \in disconnects
    /\ connections' = IF w \in DOMAIN connections THEN Remove(connections, w)
                      ELSE connections
    /\ disconnects' = disconnects \ {w}
    /\ UNCHANGED <<syncVars, retryVars, calcVars, extVars, lock, bc, seen>>

InitHubVars ==
    /\ connections = <<>>
    /\ lock = "free"
    /\ bc = NoBroadcast
    /\ disconnects = {}
    /\ seen = {}

NextHub ==
    \/ \E w \in WS : Connect(w)
    \/ \E w \in WS : Disconnect(w)
    \/ \E w \in WS, va \in ViewportArgs, pa \in PriorityArgs : UpdateSubscription(w, va, pa)
    \/ \E calls \in CallLists : BroadcastStart(calls)
    \/ \E w \in WS : SendOk(w)
    \/ \E w \in WS : SendFail(w)
    \/ BroadcastEnd
    \/ \E w \in WS : DisconnectTask(w)

\* the operations on the connection map alone, as the websocket router
\* calls them between broadcasts
NextHubMap ==
    \/ \E w \in WS : Connect(w)
    \/ \E w \in WS : Disconnect(w)
    \/ \E w \in WS, va \in ViewportArgs, pa \in PriorityArgs : UpdateSubscription(w, va, pa)

\* ================================================ Source Client retry loop
\* what one client.get(...) / raise_for_status() / response.json() produces
Resp(kind, status, json_ok) == [kind |-> kind, status |-> status, json_ok |-> json_ok]

Statuses == {200, 404, 429, 500, 503}

Responses ==
    {Resp("response", c, TRUE) : c \in Statuses}
        \cup {Resp("response", 200, FALSE), Resp("request_error", 0, TRUE)}

RECURSIVE Pow2(_)
Pow2(n) == IF n = 0 THEN 1 ELSE 2 * Pow2(n - 1)

\* One _request_with_retry call:
\*   pc        "loop" (at the for statement), "sleep" (in asyncio.sleep), "done"
\*   attempt   the loop variable
\*   log       the outcomes of the HTTP requests made, in order
\*   wait      the wait_time of the sleep in progress
\*   slept     the sleeps completed, in order
\*   result    "none", "json" (returned), or the exception that left the call
NewRequest(m) ==
    [pc |-> "loop", max_retries |-> m, attempt |-> 0, log |-> <<>>, wait |-> 0,
     slept |-> <<>>, result |-> "none"]

\* the except clauses without the one for httpx.RequestError
RetriedStatusOnly(resp) ==
    resp.kind = "response" /\ (resp.status = 429 \/ resp.status >= 500)

\* the except clauses: which outcomes sleep and go round the loop again
Retried(resp) ==
    \/ resp.kind = "request_error"
    \/ resp.kind = "response" /\ (resp.status = 429 \/ resp.status >= 500)

WaitTime(resp, attempt) ==
    IF resp.kind = "response" /\ resp.status = 429 THEN Pow2(attempt) * 10
    ELSE Pow2(attempt)

\* the loop body under "for attempt in range(self.max_retries + 1)"
AttemptOneMore(resp) ==
    /\ rq.pc = "loop"
    /\ rq.attempt <= rq.max_retries
    /\ rq' = LET logged == [rq EXCEPT !.log = Append(@, resp)]
             IN  IF resp.kind = "response" /\ resp.status < 400
                 THEN [logged EXCEPT !.pc = "done",
                                     !.result = IF resp.json_ok THEN "json"
                                                ELSE "JSONDecodeError"]
                 ELSE IF Retried(resp)
                 THEN [logged EXCEPT !.pc = "sleep",
                                     !.wait = WaitTime(resp, rq.attempt)]
                 ELSE [logged EXCEPT !.pc = "done", !.result = "SODAClientError"]
    /\ UNCHANGED <<syncVars, hubVars, extVars, calcVars>>

\* one pass of the loop body up to the sleep
Attempt(resp) ==
    /\ rq.pc = "loop"
    /\ rq.attempt < rq.max_retries
    /\ rq' = LET logged == [rq EXCEPT !.log = Append(@, resp)]
             IN  IF resp.kind = "response" /\ resp.status < 400
                 THEN [logged EXCEPT !.pc = "done",
                                     !.result = IF resp.json_ok THEN "json"
                                                ELSE "JSONDecodeError"]
                 ELSE IF Retried(resp)
                 THEN [logged EXCEPT !.pc = "sleep",
                                     !.wait = WaitTime(resp, rq.attempt)]
                 ELSE [logged EXCEPT !.pc = "done", !.result = "SODAClientError"]
    /\ UNCHANGED <<syncVars, hubVars, extVars, calcVars>>

\* asyncio.sleep(wait_time) returns and the loop takes its next value
Sleep ==
    /\ rq.pc = "sleep"
    /\ rq' = [rq EXCEPT !.pc = "loop", !.attempt = @ + 1, !.wait = 0,
                        !.slept = Append(@, rq.wait)]
    /\ UNCHANGED <<syncVars, hubVars, extVars, calcVars>>

\* the loop is exhausted: raise SODAClientError("Failed after ... retries")
Exhausted ==
    /\ rq.pc = "loop"
    /\ rq.attempt >= rq.max_retries
    /\ rq' = [rq EXCEPT !.pc = "done", !.result = "SODAClientError"]
    /\ UNCHANGED <<syncVars, hubVars, extVars, calcVars>>

NextRetry ==
    \/ \E resp \in Responses : Attempt(resp)
    \/ Sleep
    \/ Exhausted

\* ====================================== Diachron writer: facts, locations
\* Coordinates of facts are points of one street, in metres from its start.
Positions == {5 * i : i \in 0..MaxPos}

Distance(p, q) == IF p >= q THEN p - q ELSE q - p

\* ST_DWithin(coordinates::geography, point::geography, 10)
Within(p, q) == Distance(p, q) <= DedupMetres

Location(id, pos) == [id |-> id, pos |-> pos]

\* the rows the SELECT of _find_or_create_location can return: it has
\* LIMIT 1 and no ORDER BY, so any one of them
Nearby(locs, pos) == {l \in locs : Within(l.pos, pos)}

\* _fact_kinds_cache: the codes of the fact_kinds table
KnownKinds == {"dispatch_call", "police_incident"}

\* a DiachronFact handed to the writer: the fields of Fact and its coordinates
WFact(f, pos) == [fact |-> f, pos |-> pos]

WriterFacts ==
    {WFact(Fact("k1", "dispatch_call", t), p) : t \in Times, p \in Positions}
    \cup {WFact(Fact("k1", "police_incident", 1), 0),
          WFact(Fact("none", "dispatch_call", 1), 0),
          WFact(Fact("k1", "311_case", 1), 0)}

FactLists == UNION {[1..n -> WriterFacts] : n \in 1..MaxBatch}

\* "SELECT id FROM location_facts WHERE external_id = $1 AND kind_id = $2",
\* made only "if fact.external_id"
ExistingFact(rows, f) ==
    IF f.external_id = "none" THEN {}
    ELSE {x \in rows : x.external_id = f.external_id /\ x.kind_code = f.kind_code}

\* A writer call:
\*   pc        "idle", or "batch" inside the transaction of write_facts_batch
\*   todo      the facts of the batch not yet written
\*   inserted, updated   the counters of write_facts_batch
\*   returned  the id write_fact returned (0 = None), 0 after a batch
\*   resolved  the (coordinate, location id) pairs that
\*             _find_or_create_location has answered so far (history)
\*   batch     the argument of the write_facts_batch call under way
\*   begin     the rows (and answers) when its transaction opened
\*   outcome   of the last write_facts_batch call: "none", "committed",
\*             "rolled_back"
\*   linked    the location_id column of location_facts: (fact id,
\*             location id) pairs, set by the INSERT of a fact and by no
\*             UPDATE
NoSnapshot == [facts |-> {}, locations |-> {}, resolved |-> {}, linked |-> {}]

IdleWriter ==
    [pc |-> "idle", todo |-> <<>>, inserted |-> 0, updated |-> 0, returned |-> 0,
     resolved |-> {}, batch |-> <<>>, begin |-> NoSnapshot, outcome |-> "none",
     linked |-> {}]

\* the INSERT of _find_or_create_location without the SELECT before it
AlwaysNewLocation(w) == {Location(1 + MaxId(locations), w.pos)}

\* _find_or_create_location: the row the SELECT returned, or with no row
\* within the threshold the row it inserts under a fresh id
LocationChoices(w) ==
    IF Nearby(locations, w.pos) = {} THEN {Location(1 + MaxId(locations), w.pos)}
    ELSE Nearby(locations, w.pos)

\* the write of one fact once its location l is resolved: the existing-row
\* lookup and the UPDATE or INSERT of the fact
WriteResolved(w, l) ==
    /\ locations' = locations \cup {l}
    /\ facts' = WriteFact(facts, w.fact)
    /\ wr' = [wr EXCEPT
                !.resolved = @ \cup {[pos |-> w.pos, loc |-> l.id]},
                !.linked = IF ExistingFact(facts, w.fact) = {}
                           THEN @ \cup {[fact |-> 1 + MaxId(facts), loc |-> l.id]}
                           ELSE @,
                !.todo = IF wr.pc = "batch" THEN Tail(@) ELSE @,
                !.inserted = IF wr.pc = "batch" /\ ExistingFact(facts, w.fact) = {}
                             THEN @ + 1 ELSE @,
                !.updated = IF wr.pc = "batch" /\ ExistingFact(facts, w.fact) # {}
                            THEN @ + 1 ELSE @,
                !.returned =
                    IF wr.pc = "batch" THEN 0
                    ELSE IF ExistingFact(facts, w.fact) # {}
                         THEN (CHOOSE x \in ExistingFact(facts, w.fact) : TRUE).id
                         ELSE 1 + MaxId(facts)]

\* DiachronWriter.write_fact
WriteFactCall(w) ==
    /\ wr.pc = "idle"
    /\ Cardinality(facts) < MaxFacts
    /\ IF w.fact.kind_code \notin KnownKinds
       THEN /\ wr' = [wr EXCEPT !.returned = 0, !.inserted = 0, !.updated = 0]
            /\ UNCHANGED <<facts, locations>>
       ELSE \E l \in LocationChoices(w) : WriteResolved(w, l)
    /\ UNCHANGED <<hubVars, retryVars, calcVars, backfill, job,
                   src, upstream, primary, cp, run, writer, dcfg, nruns>>

\* write_facts_batch: "if not facts: return 0, 0" is the caller's empty list;
\* else the transaction opens with both counters at 0
BatchBegin(fs) ==
    /\ wr.pc = "idle"
    /\ Cardinality(facts) + Len(fs) <= MaxFacts
    /\ wr' = [wr EXCEPT !.pc = "batch", !.todo = fs, !.inserted = 0,
                        !.updated = 0, !.returned = 0,
                        !.batch = fs, !.outcome = "none",
                        !.begin = [facts |-> facts, locations |-> locations,
                                   resolved |-> wr.resolved, linked |-> wr.linked]]
    /\ UNCHANGED <<hubVars, retryVars, calcVars, backfill, job, locations,
                   src, upstream, primary, cp, run, facts, writer, dcfg, nruns>>

\* one pass of the loop of write_facts_batch
BatchStep ==
    /\ wr.pc = "batch"
    /\ wr.todo # <<>>
    /\ LET w == Head(wr.todo)
       IN  IF w.fact.kind_code \notin KnownKinds
           THEN /\ wr' = [wr EXCEPT !.todo = Tail(@)]
                /\ UNCHANGED <<facts, locations>>
           ELSE \E l \in LocationChoices(w) : WriteResolved(w, l)
    /\ UNCHANGED <<hubVars, retryVars, calcVars, backfill, job,
                   src, upstream, primary, cp, run, writer, dcfg, nruns>>

\* the transaction commits and write_facts_batch returns (inserted, updated)
BatchCommit ==
    /\ wr.pc = "batch"
    /\ wr.todo = <<>>
    /\ wr' = [wr EXCEPT !.pc = "idle", !.outcome = "committed",
                        !.batch = <<>>, !.begin = NoSnapshot]
    /\ UNCHANGED <<hubVars, retryVars, calcVars, backfill, job, locations,
                   src, upstream, primary, cp, run, facts, writer, dcfg, nruns>>

\* the failure as it would be with every statement committed on its own
BatchFailKeepsWrites ==
    /\ wr.pc = "batch"
    /\ wr' = [wr EXCEPT !.pc = "idle", !.outcome = "rolled_back", !.todo = <<>>,
                        !.batch = <<>>, !.begin = NoSnapshot]
    /\ UNCHANGED <<hubVars, retryVars, calcVars, backfill, job, locations,
                   src, upstream, primary, cp, run, facts, writer, dcfg, nruns>>

\* A statement of the loop, or the commit, raises: "async with
\* conn.transaction()" rolls back every statement issued on conn since it
\* opened, the location inserts included, and the exception leaves
\* write_facts_batch.
BatchFail ==
    /\ wr.pc = "batch"
    /\ facts' = wr.begin.facts
    /\ locations' = wr.begin.locations
    /\ wr' = [wr EXCEPT !.pc = "idle", !.outcome = "rolled_back", !.todo = <<>>,
                        !.resolved = wr.begin.resolved,
                        !.linked = wr.begin.linked,
                        !.batch = <<>>, !.begin = NoSnapshot]
    /\ UNCHANGED <<hubVars, retryVars, calcVars, backfill, job,
                   src, upstream, primary, cp, run, writer, dcfg, nruns>>

NextWriter ==
    \/ \E w \in WriterFacts : WriteFactCall(w)
    \/ \E fs \in FactLists : BatchBegin(fs)
    \/ BatchStep
    \/ BatchCommit
    \/ BatchFail

\* ------------------------------------- operator endpoints (routers/health.py)
\* DELETE /sync/incidents/checkpoint: the checkpoint row of incident_reports
\* is deleted and the deletion committed.
ClearCheckpoint ==
    /\ src = "incident_reports"
    /\ cp' = [cp EXCEPT !["incident_reports"] = NoCheckpoint]
    /\ UNCHANGED <<hubVars, retryVars, calcVars, extVars, src, upstream, primary, run, facts, writer, dcfg, nruns>>

\* POST /sync/incidents/chunked -> sync_incident_reports_range(start, end):
\* pc is the await the call is suspended at, result as for a sync run.
IdleBackfill ==
    [pc |-> "idle", start_date |-> 0, end_date |-> 0, transformed |-> <<>>,
     idx |-> 0, upserted |-> 0, result |-> "none"]

\* fetch_incident_reports_range: $where report_datetime >= start AND
\* report_datetime <= end, newest first
RangeWindow(a, b) == {r \in upstream : r.ts_t >= a /\ r.ts_t <= b}

RangeResults(a, b) ==
    {q \in SeqsOfSet(RangeWindow(a, b)) : IsDescending("incident_reports", q)}

\* The endpoint parses the two dates and the call starts its fetch.
RangeStart(a, b) ==
    /\ src = "incident_reports"
    /\ backfill.pc \in {"idle", "done"}
    /\ backfill' = [IdleBackfill EXCEPT !.pc = "fetching", !.start_date = a, !.end_date = b]
    /\ UNCHANGED <<hubVars, retryVars, calcVars, syncVars, locations, wr, job>>

\* The client hands back the records of the range; they are transformed.
\* Nothing fetched, or nothing accepted: return 0.
RangeFetch(q) ==
    /\ backfill.pc = "fetching"
    /\ q \in RangeResults(backfill.start_date, backfill.end_date)
    /\ LET vs == Transformed("incident_reports", q)
       IN  backfill' = IF vs = <<>>
                       THEN [backfill EXCEPT !.pc = "done", !.result = "returned"]
                       ELSE [backfill EXCEPT !.pc = "upserting", !.transformed = vs]
    /\ UNCHANGED <<hubVars, retryVars, calcVars, syncVars, locations, wr, job>>

\* The fetch raises (SODAClientError after the retries; with the SODAClient
\* of soda_client.py the read of self.incidents_id, an attribute __init__
\* never sets, raises AttributeError on the first request).
RangeFetchFail ==
    /\ backfill.pc = "fetching"
    /\ backfill' = [backfill EXCEPT !.pc = "done", !.result = "raised"]
    /\ UNCHANGED <<hubVars, retryVars, calcVars, syncVars, locations, wr, job>>

\* the batch loop as it would be with the checkpoint advanced per batch
RangeUpsertBatchAdvances ==
    /\ backfill.pc = "upserting"
    /\ LET b == Batch(backfill.transformed, backfill.idx)
           next == backfill.idx + BatchSize
           last == next >= Len(backfill.transformed)
       IN  /\ primary' = UpsertAll(primary, b)
           /\ cp' = [cp EXCEPT !["incident_reports"] =
                       [last_updated_at |-> LatestUpdated("incident_reports", b, 0),
                        record_count |-> Cardinality(primary')]]
           /\ backfill' = [backfill EXCEPT !.idx = next,
                                           !.upserted = @ + Len(b),
                                           !.pc = IF last THEN "done" ELSE "upserting",
                                           !.result = IF last THEN "returned" ELSE "none"]
    /\ UNCHANGED <<hubVars, retryVars, calcVars, locations, wr, job, src, upstream, run, facts, writer, dcfg, nruns>>

\* The upserts of one batch and their commit; after the last batch the call
\* returns the count.
RangeUpsertBatch ==
    /\ backfill.pc = "upserting"
    /\ LET b == Batch(backfill.transformed, backfill.idx)
           next == backfill.idx + BatchSize
           last == next >= Len(backfill.transformed)
       IN  /\ primary' = UpsertAll(primary, b)
           /\ backfill' = [backfill EXCEPT !.idx = next,
                                           !.upserted = @ + Len(b),
                                           !.pc = IF last THEN "done" ELSE "upserting",
                                           !.result = IF last THEN "returned" ELSE "none"]
    /\ UNCHANGED <<hubVars, retryVars, calcVars, locations, wr, job, src, upstream, cp, run, facts, writer, dcfg, nruns>>

\* The commit of a batch fails: the call raises, earlier batches stay.
RangeCommitFail ==
    /\ backfill.pc = "upserting"
    /\ backfill' = [backfill EXCEPT !.pc = "done", !.result = "raised"]
    /\ UNCHANGED <<hubVars, retryVars, calcVars, syncVars, locations, wr, job>>

\* The scheduled incident job, the checkpoint endpoint and the chunked
\* endpoint of one deployment (Diachron integration off).
NextOps ==
    \/ \E r \in IncidentMenu : SourcePublish(r)
    \/ \E seed \in SeedTimes : RunStart("sched", seed)
    \/ \E q \in FetchResults(src, run["sched"].since) : Fetch("sched", q)
    \/ FetchFail("sched")
    \/ UpsertBatch("sched")
    \/ CommitFail("sched")
    \/ CheckpointAdvance("sched")
    \/ DiachronDisabled("sched")
    \/ ClearCheckpoint
    \/ \E a, b \in Times : RangeStart(a, b)
    \/ \E q \in RangeResults(backfill.start_date, backfill.end_date) : RangeFetch(q)
    \/ RangeFetchFail
    \/ RangeUpsertBatch
    \/ RangeCommitFail

\* ------------------------------ sync_dispatch_calls_job (tasks/scheduler.py)
\* One instance of the job (APScheduler runs at most one at a time): pc is
\* the await it is suspended at, calls the list it hands to broadcast. The
\* sync_dispatch_calls call is taken by its outcome here.
IdleJob == [pc |-> "idle", calls |-> <<>>]

\* the IntervalTrigger fires and no instance is running
JobStart ==
    /\ job.pc = "idle"
    /\ job' = [IdleJob EXCEPT !.pc = "sync"]
    /\ UNCHANGED <<syncVars, hubVars, retryVars, calcVars, locations, wr, backfill>>

\* sync_dispatch_calls (or fetch_calls_by_cad_numbers) raises: logged by
\* the except clause, the job ends without pruning.
JobSyncRaised ==
    /\ job.pc = "sync"
    /\ job' = IdleJob
    /\ UNCHANGED <<syncVars, hubVars, retryVars, calcVars, locations, wr, backfill>>

\* sync_dispatch_calls has committed and returned; calls are the rows
\* fetch_calls_by_cad_numbers finds for its cad_numbers. With calls and a
\* registered connection the job awaits ws_manager.broadcast(calls),
\* otherwise it goes on to prune.
JobSynced(calls) ==
    /\ job.pc = "sync"
    /\ bc.phase # "sending"
    /\ IF calls # <<>> /\ Cardinality(DOMAIN connections) > 0
       THEN /\ job' = [pc |-> "broadcast", calls |-> calls]
            /\ bc' = NoBroadcast
       ELSE /\ job' = [pc |-> "prune", calls |-> <<>>]
            /\ bc' = bc
    /\ UNCHANGED <<syncVars, retryVars, calcVars, locations, wr, backfill, connections, lock, disconnects, seen>>

\* the awaited broadcast runs up to its gather (or returns at once)
JobBroadcastStart ==
    /\ job.pc = "broadcast"
    /\ bc.phase = "idle"
    /\ BroadcastStart(job.calls)

\* "await ws_manager.broadcast(calls)" returns
JobBroadcastReturned ==
    /\ job.pc = "broadcast"
    /\ bc.phase = "done"
    /\ job' = [job EXCEPT !.pc = "prune"]
    /\ UNCHANGED <<syncVars, hubVars, retryVars, calcVars, locations, wr, backfill>>

\* the DELETE with "received_at <= cutoff"
JobPruneThroughCutoff(cutoff) ==
    /\ job.pc = "prune"
    /\ primary' = {row \in primary : ~(row.anchor <= cutoff)}
    /\ job' = IdleJob
    /\ UNCHANGED <<hubVars, retryVars, calcVars, locations, wr, backfill, src, upstream, cp, run, facts, writer, dcfg, nruns>>

\* prune_old_dispatch_calls: DELETE ... WHERE received_at < cutoff, commit;
\* the job returns
JobPrune(cutoff) ==
    /\ job.pc = "prune"
    /\ primary' = {row \in primary : ~(row.anchor < cutoff)}
    /\ job' = IdleJob
    /\ UNCHANGED <<hubVars, retryVars, calcVars, locations, wr, backfill, src, upstream, cp, run, facts, writer, dcfg, nruns>>

NextJob ==
    \/ \E w \in WS : Connect(w)
    \/ \E w \in WS : Disconnect(w)
    \/ JobStart
    \/ JobSyncRaised
    \/ \E calls \in CallLists \cup {<<>>} : JobSynced(calls)
    \/ JobBroadcastStart
    \/ \E w \in WS : SendOk(w)
    \/ \E w \in WS : SendFail(w)
    \/ BroadcastEnd
    \/ \E w \in WS : DisconnectTask(w)
    \/ JobBroadcastReturned
    \/ \E cutoff \in SeedTimes : JobPrune(cutoff)

\* What the event loop and the database guarantee: a coroutine that can run
\* is run, the sync call and the prune end (client timeout, bounded
\* retries). Nothing bounds send_json: the peer decides when, and whether,
\* SendOk or SendFail happens.
JobFairness ==
    /\ WF_vars(JobSyncRaised \/ \E calls \in CallLists \cup {<<>>} : JobSynced(calls))
    /\ WF_vars(JobBroadcastStart)
    /\ WF_vars(BroadcastEnd)
    /\ WF_vars(JobBroadcastReturned)
    /\ WF_vars(\E cutoff \in SeedTimes : JobPrune(cutoff))
    /\ WF_vars(\E w \in WS : DisconnectTask(w))

InitExtVars ==
    /\ locations = {}
    /\ wr = IdleWriter
    /\ backfill = IdleBackfill
    /\ job = IdleJob

\* ------------- concurrent write_facts_batch calls on the shared pool
\* Each call runs on its own pooled connection inside conn.transaction()
\* (asyncpg: READ COMMITTED): a statement sees the committed rows and the
\* rows its own transaction wrote. The calls are followed statement by
\* statement, one await each.
Txs == {1, 2}

TxFacts ==
    {WFact(Fact("k1", "dispatch_call", 1), 0),
     WFact(Fact("k2", "dispatch_call", 1), 5),
     WFact(Fact("k1", "dispatch_call", 2), 15),
     WFact(Fact("k1", "311_case", 1), 0)}

TxBatches == UNION {[1..n -> TxFacts] : n \in 1..MaxBatch}

\* One call:
\*   pc       "idle", "loop" (at the for statement), "insert_loc" (the
\*            SELECT found no Location), "select_fact", "write_fact", "done"
\*   todo     the facts not yet written
\*   loc      location_id of the pass;  existing  the id the SELECT on
\*            location_facts returned (0 = no row)
\*   locs, ins  the Location and Fact rows the transaction has inserted
\*   upd      its UPDATEs: (id, fact) pairs
\*   outcome  "none", "committed", "rolled_back"
IdleTx ==
    [pc |-> "idle", todo |-> <<>>, loc |-> 0, existing |-> 0, locs |-> {},
     ins |-> {}, upd |-> {}, inserted |-> 0, updated |-> 0, outcome |-> "none"]

\* uuid4(): an id no row has, committed or not
FreshId(rows, own) == 1 + MaxId(rows \cup UNION {own[t] : t \in Txs})

TxRest == UNCHANGED <<syncVars, hubVars, retryVars, extVars, conv, pg, clock>>

\* write_facts_batch(facts) with a non-empty list opens its transaction
TxBegin(t, fs) ==
    /\ tx[t].pc = "idle"
    /\ tx' = [tx EXCEPT ![t] = [IdleTx EXCEPT !.pc = "loop", !.todo = fs]]
    /\ TxRest

\* the kind lookup ("continue" for an unknown kind) and the SELECT of
\* _find_or_create_location
TxSelectLocation(t) ==
    /\ tx[t].pc = "loop"
    /\ tx[t].todo # <<>>
    /\ LET w == Head(tx[t].todo)
           near == Nearby(locations \cup tx[t].locs, w.pos)
       IN  IF w.fact.kind_code \notin KnownKinds
           THEN tx' = [tx EXCEPT ![t].todo = Tail(@)]
           ELSE IF near = {}
           THEN tx' = [tx EXCEPT ![t].pc = "insert_loc"]
           ELSE \E l \in near : tx' = [tx EXCEPT ![t].pc = "select_fact", ![t].loc = l.id]
    /\ TxRest

\* the INSERT INTO locations of _find_or_create_location
TxInsertLocation(t) ==
    /\ tx[t].pc = "insert_loc"
    /\ LET id == FreshId(locations, [u \in Txs |-> tx[u].locs])
       IN  tx' = [tx EXCEPT ![t].pc = "select_fact", ![t].loc = id,
                            ![t].locs = @ \cup {Location(id, Head(tx[t].todo).pos)}]
    /\ TxRest

\* "SELECT id FROM location_facts WHERE external_id = $1 AND kind_id = $2"
TxSelectFact(t) ==
    /\ tx[t].pc = "select_fact"
    /\ LET found == ExistingFact(facts \cup tx[t].ins, Head(tx[t].todo).fact)
       IN  IF found = {}
           THEN tx' = [tx EXCEPT ![t].pc = "write_fact", ![t].existing = 0]
           ELSE \E x \in found : tx' = [tx EXCEPT ![t].pc = "write_fact", ![t].existing = x.id]
    /\ TxRest

\* _update_fact on the row found (it waits while another transaction holds
\* an update of that row), or the INSERT INTO location_facts
TxWriteFact(t) ==
    /\ tx[t].pc = "write_fact"
    /\ LET f == Head(tx[t].todo).fact
       IN  IF tx[t].existing # 0
           THEN /\ \A u \in Txs \ {t} : \A p \in tx[u].upd : p.id # tx[t].existing
                /\ tx' = [tx EXCEPT ![t].pc = "loop", ![t].todo = Tail(@),
                                     ![t].upd = {p \in @ : p.id # tx[t].existing}
                                                   \cup {[id |-> tx[t].existing, fact |-> f]},
                                     ![t].updated = @ + 1]
           ELSE tx' = [tx EXCEPT ![t].pc = "loop", ![t].todo = Tail(@),
                                 ![t].ins = @ \cup {FactRow(FreshId(facts, [u \in Txs |-> tx[u].ins]), f)},
                                 ![t].inserted = @ + 1]
    /\ TxRest

\* the rows after the UPDATEs ups
Updated(rows, ups) ==
    {IF \E p \in ups : p.id = x.id
     THEN FactRow(x.id, (CHOOSE p \in ups : p.id = x.id).fact) ELSE x : x \in rows}

\* the loop is over: the transaction commits and the call returns
TxCommit(t) ==
    /\ tx[t].pc = "loop"
    /\ tx[t].todo = <<>>
    /\ locations' = locations \cup tx[t].locs
    /\ facts' = Updated(facts \cup tx[t].ins, tx[t].upd)
    /\ tx' = [tx EXCEPT ![t].pc = "done", ![t].outcome = "committed",
                         ![t].locs = {}, ![t].ins = {}, ![t].upd = {}]
    /\ UNCHANGED <<hubVars, retryVars, backfill, job, wr, conv, pg, clock,
                   src, upstream, primary, cp, run, writer, dcfg, nruns>>

\* a statement raises: the transaction rolls back, the call raises
TxRollback(t) ==
    /\ tx[t].pc \in {"loop", "insert_loc", "select_fact", "write_fact"}
    /\ tx' = [tx EXCEPT ![t].pc = "done", ![t].outcome = "rolled_back",
                         ![t].locs = {}, ![t].ins = {}, ![t].upd = {},
                         ![t].todo = <<>>]
    /\ TxRest

NextTxs ==
    \/ \E t \in Txs, fs \in TxBatches : TxBegin(t, fs)
    \/ \E t \in Txs : TxSelectLocation(t)
    \/ \E t \in Txs : TxInsertLocation(t)
    \/ \E t \in Txs : TxSelectFact(t)
    \/ \E t \in Txs : TxWriteFact(t)
    \/ \E t \in Txs : TxCommit(t)
    \/ \E t \in Txs : TxRollback(t)

\* ------------------------- retention (the dispatch job over its table)
\* time passes
Tick ==
    /\ clock < MaxClock
    /\ clock' = clock + 1
    /\ UNCHANGED <<syncVars, hubVars, retryVars, extVars, conv, pg, tx>>

\* cutoff = datetime.now(UTC) - timedelta(hours=dispatch_retention_hours)
Cutoff == clock - RetentionSpan

\* what a fetch of the job's sync_dispatch_calls hands back
JobFetches == {<<r>> : r \in DispatchMenu} \cup {<<r1, r2>> : r1, r2 \in {Raw(k, "std", t, t, 0, "in") : k \in Keys, t \in Times}}

\* sync_dispatch_calls of the job fetched q, upserted the accepted records,
\* committed, wrote its checkpoint and returned; no connection is registered
\* (ws_manager.connection_count is 0), so the job goes on to prune.
JobSyncStores(q) ==
    /\ job.pc = "sync"
    /\ Cardinality(DOMAIN connections) = 0
    /\ LET vs == Transformed(src, q)
           latest == LatestUpdated(src, vs, cp[src].last_updated_at)
       IN  /\ primary' = UpsertAll(primary, vs)
           /\ cp' = IF latest # 0
                    THEN [cp EXCEPT ![src] = [last_updated_at |-> latest,
                                              record_count |-> Cardinality(primary')]]
                    ELSE cp
    /\ job' = [pc |-> "prune", calls |-> <<>>]
    /\ UNCHANGED <<hubVars, retryVars, calcVars, locations, wr, backfill, src, upstream, run, facts, writer, dcfg, nruns>>

\* The scheduled dispatch job against its table, with no websocket client.
NextRetention ==
    \/ Tick
    \/ (MaxId(primary) < MaxRowId /\ JobStart)
    \/ \E q \in JobFetches : JobSyncStores(q)
    \/ JobSynced(<<>>)
    \/ JobSyncRaised
    \/ JobPrune(Cutoff)

\* ------------------------------- validity range (diachron_adapter.py)
\* Instants are counted in parts of a day, UnitsPerDay to the day; 0 stands
\* for an absent value (None), Unparseable for text fromisoformat rejects.
Instants == 1..MaxInstant
Unparseable == 0 - 1

\* datetime.date(): the day an instant falls on
Date(t) == t \div UnitsPerDay

\* One record on its way through an adapter and to_daterange_sql:
\*   pc        "idle", "rejected" (the adapter returned None), "fact",
\*             "range" (to_daterange_sql has run on the fact)
\*   valid_from, valid_to  of the DiachronFact (valid_to 0 = None)
\*   lower, upper          the DATERANGE literal [lower,upper), as days
NoConversion ==
    [pc |-> "idle", kind_code |-> "none", valid_from |-> 0, valid_to |-> 0,
     lower |-> 0, upper |-> 0]

\* an adapter returned None
Rejected == [NoConversion EXCEPT !.pc = "rejected"]

\* dispatch_call_dict_to_diachron(record): None without coordinates, outside
\* the SF box, or without a parseable received_datetime; close_datetime is
\* parsed when present and kept as valid_to, None when it does not parse
DispatchDictToDiachron(received, close, pt) ==
    IF pt # "in" \/ received = 0 \/ received = Unparseable THEN Rejected
    ELSE [NoConversion EXCEPT !.pc = "fact", !.kind_code = "dispatch_call",
                              !.valid_from = received,
                              !.valid_to = IF close = Unparseable THEN 0 ELSE close]

\* incident_dict_to_diachron(record): valid_from from incident_date (and
\* incident_time) or else report_datetime; valid_to is None
IncidentDictToDiachron(when, pt) ==
    IF pt # "in" \/ when = 0 \/ when = Unparseable THEN Rejected
    ELSE [NoConversion EXCEPT !.pc = "fact", !.kind_code = "police_incident",
                              !.valid_from = when]

\* the range with the day of valid_to as its exclusive upper bound
ToDaterangeExclusiveEnd(f) ==
    [f EXCEPT !.pc = "range",
              !.lower = Date(f.valid_from),
              !.upper = IF f.valid_to # 0 THEN Date(f.valid_to)
                        ELSE Date(f.valid_from) + 1]

\* DiachronFact.to_daterange_sql: "[start,end)" with start the day of
\* valid_from and end the day after valid_to, or after valid_from when
\* there is no valid_to
ToDaterangeSql(f) ==
    [f EXCEPT !.pc = "range",
              !.lower = Date(f.valid_from),
              !.upper = IF f.valid_to # 0 THEN Date(f.valid_to) + 1
                        ELSE Date(f.valid_from) + 1]

ConvPoints == {"in", "out", "none"}

ConvertDispatch(received, close, pt) ==
    /\ conv.pc # "fact"
    /\ conv' = DispatchDictToDiachron(received, close, pt)
    /\ UNCHANGED <<syncVars, hubVars, retryVars, extVars, pg, clock, tx>>

ConvertIncident(when, pt) ==
    /\ conv.pc # "fact"
    /\ conv' = IncidentDictToDiachron(when, pt)
    /\ UNCHANGED <<syncVars, hubVars, retryVars, extVars, pg, clock, tx>>

\* the writer asks the fact for its range (write_fact, _update_fact,
\* write_facts_batch)
FactDaterange ==
    /\ conv.pc = "fact"
    /\ conv' = ToDaterangeSql(conv)
    /\ UNCHANGED <<syncVars, hubVars, retryVars, extVars, pg, clock, tx>>

NextAdapter ==
    \/ \E received \in Instants \cup {0, Unparseable},
          close \in Instants \cup {0, Unparseable}, pt \in ConvPoints :
            ConvertDispatch(received, close, pt)
    \/ \E when \in Instants \cup {0, Unparseable}, pt \in ConvPoints :
            ConvertIncident(when, pt)
    \/ FactDaterange

\* ------------------------------ pagination (SODAClient.fetch_all_* and
\* fetch_incident_reports_range)
\* The source holds rows 0 .. total-1 in the requested order; Endless is a
\* source that has a row at every offset.
Endless == 0 - 1
SourceSizes == {0, 1500, 50000, 60000, Endless}
PageSizes == {default_batch_size, 20000, 30000}
Variants == {"dispatch", "incidents", "range"}

\* the "Safety limit" of each loop
SafetyLimit(variant) == IF variant = "range" THEN range_safety_limit ELSE safety_limit

\* the rows [lo, hi) a request with $limit and $offset gets; empty iff lo >= hi
Page(total, offset, limit) ==
    [lo |-> offset,
     hi |-> IF total = Endless THEN offset + limit ELSE Max(offset, Min(offset + limit, total))]

IsEmpty(page) == page.lo >= page.hi

\* A fetch_all call:
\*   pc          "idle", "loop" (at the top of "while True"), "done"
\*   offset      the local offset;  offsets  the $offset of each request made
\*   all_records the pages extended into all_records, in order
\*   result      "none", "returned", "raised"
NoPages ==
    [pc |-> "idle", variant |-> "dispatch", batch_size |-> 0, total |-> 0,
     offset |-> 0, offsets |-> <<>>, all_records |-> <<>>, result |-> "none"]

FetchAllCall(variant, batch_size, total) ==
    /\ pg.pc \in {"idle", "done"}
    /\ pg' = [NoPages EXCEPT !.pc = "loop", !.variant = variant,
                             !.batch_size = batch_size, !.total = total]
    /\ UNCHANGED <<syncVars, hubVars, retryVars, extVars, conv, clock, tx>>

\* One pass of "while True" of fetch_all_dispatch_calls /
\* fetch_all_incident_reports: request the page at offset; empty: break;
\* else extend, offset += batch_size, and break once offset >= the limit.
PageRequest ==
    /\ pg.pc = "loop"
    /\ pg.variant # "range"
    /\ LET batch == Page(pg.total, pg.offset, pg.batch_size)
           offset == pg.offset + pg.batch_size
       IN  pg' = IF IsEmpty(batch)
                 THEN [pg EXCEPT !.offsets = Append(@, pg.offset),
                                 !.pc = "done", !.result = "returned"]
                 ELSE [pg EXCEPT !.offsets = Append(@, pg.offset),
                                 !.all_records = Append(@, batch),
                                 !.offset = offset,
                                 !.pc = IF offset >= SafetyLimit(pg.variant)
                                        THEN "done" ELSE "loop",
                                 !.result = IF offset >= SafetyLimit(pg.variant)
                                            THEN "returned" ELSE "none"]
    /\ UNCHANGED <<syncVars, hubVars, retryVars, extVars, conv, clock, tx>>

\* The request of a pass raises SODAClientError: it leaves the loop.
PageRequestFails ==
    /\ pg.pc = "loop"
    /\ pg.variant # "range"
    /\ pg' = [pg EXCEPT !.offsets = Append(@, pg.offset),
                        !.pc = "done", !.result = "raised"]
    /\ UNCHANGED <<syncVars, hubVars, retryVars, extVars, conv, clock, tx>>

\* The first pass of fetch_incident_reports_range builds its url from
\* self.incidents_id, an attribute SODAClient never sets: AttributeError
\* before any request.
RangeUrlRaises ==
    /\ pg.pc = "loop"
    /\ pg.variant = "range"
    /\ pg' = [pg EXCEPT !.pc = "done", !.result = "raised"]
    /\ UNCHANGED <<syncVars, hubVars, retryVars, extVars, conv, clock, tx>>

NextPages ==
    \/ \E variant \in Variants, batch_size \in PageSizes, total \in SourceSizes :
            FetchAllCall(variant, batch_size, total)
    \/ PageRequest
    \/ PageRequestFails
    \/ RangeUrlRaises

InitCalcVars ==
    /\ conv = NoConversion
    /\ pg = NoPages
    /\ clock = 0
    /\ tx = [t \in Txs |-> IdleTx]

\* ======================================================= specifications
\* the part of the state a specification does not exercise stays at rest
InitSyncVars ==
    /\ upstream = {}
    /\ primary = {}
    /\ cp = [s \in Sources |-> NoCheckpoint]
    /\ run = [slot \in Slots |-> IdleRun]
    /\ facts = {}
    /\ writer = "none"
    /\ nruns = 0

InitRetryVars == rq = NewRequest(max_retries)

InitSync ==
    /\ src \in Sources
    /\ dcfg \in DiachronCfgs
    /\ InitSyncVars
    /\ InitHubVars
    /\ InitRetryVars
    /\ InitExtVars
    /\ InitCalcVars

SpecSync == InitSync /\ [][NextSync]_vars

InitHub ==
    /\ src = "dispatch_calls"
    /\ dcfg = "missing"
    /\ InitSyncVars
    /\ InitHubVars
    /\ InitRetryVars
    /\ InitExtVars
    /\ InitCalcVars

SpecHub == InitHub /\ [][NextHub]_vars

SpecHubMap == InitHub /\ [][NextHubMap]_vars

InitRetry ==
    /\ src = "dispatch_calls"
    /\ dcfg = "missing"
    /\ InitSyncVars
    /\ InitHubVars
    /\ InitExtVars
    /\ InitCalcVars
    /\ rq \in {NewRequest(m) : m \in 0..MaxBudget}

\* The event loop resumes the coroutine after every await: a request ends
\* within the client timeout and a sleep ends after wait_time.
SpecRetry == InitRetry /\ [][NextRetry]_vars /\ WF_vars(NextRetry)

InitWriter ==
    /\ src = "dispatch_calls"
    /\ dcfg = "enabled"
    /\ InitSyncVars
    /\ InitHubVars
    /\ InitRetryVars
    /\ InitExtVars
    /\ InitCalcVars

SpecWriter == InitWriter /\ [][NextWriter]_vars

InitOps ==
    /\ src = "incident_reports"
    /\ dcfg = "disabled"
    /\ InitSyncVars
    /\ InitHubVars
    /\ InitRetryVars
    /\ InitExtVars
    /\ InitCalcVars

SpecOps == InitOps /\ [][NextOps]_vars

InitJob ==
    /\ src = "dispatch_calls"
    /\ dcfg = "missing"
    /\ InitSyncVars
    /\ InitHubVars
    /\ InitRetryVars
    /\ InitExtVars
    /\ InitCalcVars

SpecJob == InitJob /\ [][NextJob]_vars /\ JobFairness

SpecRetention == InitJob /\ [][NextRetention]_vars

SpecTxs == InitWriter /\ [][NextTxs]_vars

\* the dispatch sync against a dataset that changes faster than the safety
\* limit of the fetch lets through (Diachron integration off)
NextCapped ==
    \/ \E r \in MenuOf(src) : SourcePublish(r)
    \/ \E old \in upstream, new \in MenuOf(src) : SourceUpdate(old, new)
    \/ \E slot \in Slots, seed \in SeedTimes : RunStart(slot, seed)
    \/ \E slot \in Slots : \E q \in CappedResults(src, run[slot].since) : FetchCapped(slot, q)
    \/ \E slot \in Slots : FetchFail(slot)
    \/ \E slot \in Slots : UpsertBatch(slot)
    \/ \E slot \in Slots : CommitFail(slot)
    \/ \E slot \in Slots : CheckpointAdvance(slot)
    \/ \E slot \in Slots : DiachronDisabled(slot)

InitCapped ==
    /\ src = "dispatch_calls"
    /\ dcfg = "disabled"
    /\ InitSyncVars
    /\ InitHubVars
    /\ InitRetryVars
    /\ InitExtVars
    /\ InitCalcVars

SpecCapped == InitCapped /\ [][NextCapped]_vars

InitAdapter ==
    /\ src = "dispatch_calls"
    /\ dcfg = "enabled"
    /\ InitSyncVars
    /\ InitHubVars
    /\ InitRetryVars
    /\ InitExtVars
    /\ InitCalcVars

SpecAdapter == InitAdapter /\ [][NextAdapter]_vars

InitPages ==
    /\ src = "dispatch_calls"
    /\ dcfg = "missing"
    /\ InitSyncVars
    /\ InitHubVars
    /\ InitRetryVars
    /\ InitExtVars
    /\ InitCalcVars

SpecPages == InitPages /\ [][NextPages]_vars

\* ============================================================ properties
OtherSlot(slot) == IF slot = "sched" THEN "manual" ELSE "sched"

\* the run has committed its last batch
PastUpsert(r) == r.pc \in {"checkpoint", "diachron"} \/ (r.pc = "done" /\ r.fail # "commit")

\* every element of ws is an element of vs
Covers(vs, ws) == \A i \in 1..Len(ws) : \E j \in 1..Len(vs) : vs[j] = ws[i]

RowsWithKey(k) == {row \in primary : row.key = k}

UniqueKeys == \A r1 \in primary, r2 \in primary : r1.key = r2.key => r1 = r2

\* C1: a run that aborts on the commit of a batch has written no checkpoint
\* (with no other run of the source about, the checkpoint is the one the run
\* read); the rows of the batches committed before stay in the primary store;
\* and once the next run of the trigger has re-fetched those records and
\* committed all its batches, each natural key it upserted has exactly one row.
C1_PartialFailureSafety ==
    \A slot \in Slots :
        LET r == run[slot]
        IN  /\ (r.fail = "commit" /\ run[OtherSlot(slot)].pc = "idle")
                   => cp[src].last_updated_at = r.cp0
            /\ r.fail = "commit"
                   => \A i \in 1..r.idx : RowsWithKey(r.transformed[i].key) # {}
            /\ (r.prior # <<>> /\ PastUpsert(r) /\ Covers(r.transformed, r.prior))
                   => \A i \in 1..Len(r.transformed) :
                          Cardinality(RowsWithKey(r.transformed[i].key)) = 1

\* a second batch failed to commit after the first had committed, and the
\* trigger's next run re-fetched the window and returned
C1_Witness ==
    \E slot \in Slots :
        /\ Len(run[slot].prior) >= 2
        /\ Covers(run[slot].transformed, run[slot].prior)
        /\ run[slot].result = "returned"
        /\ run[slot].upserted >= 2
        /\ cp[src].last_updated_at # 0

\* C2: the stored watermark of a source never decreases from one state to the
\* next, and a run that fetched zero records leaves the checkpoint as it
\* read it.
C2_CheckpointMonotonic ==
    [][/\ \A s \in Sources : cp'[s].last_updated_at >= cp[s].last_updated_at
       /\ \A slot \in Slots :
              (run[slot].pc = "fetching" /\ run'[slot].records = <<>>
               /\ run'[slot].result = "returned") => cp' = cp]_vars

\* the instant before a run overwrites a newer watermark with its older one
C2_Overwrite ==
    \E slot \in Slots :
        /\ run[slot].pc = "checkpoint"
        /\ run[slot].latest # 0
        /\ run[slot].latest < cp[src].last_updated_at

\* C3: no two primary rows share a natural key; upserting a transformed
\* record a second time changes nothing; and an upsert of a key already
\* stored keeps the row count and the row's id and overwrites every other
\* column with the record's values.
AllValues == {ValuesOf(s, r) : s \in {src}, r \in {x \in MenuOf(src) : Accepts(src, x)}}

C3_UpsertIdempotent ==
    /\ UniqueKeys
    /\ \A v \in AllValues :
        LET once == Upsert(primary, v)
        IN  /\ Upsert(once, v) = once
            /\ \A row \in RowsWithKey(v.key) :
                   /\ RowOf(row.id, v) \in once
                   /\ Cardinality(once) = Cardinality(primary)
                   /\ \A x \in once : x.key = v.key => x = RowOf(row.id, v)

\* a run upserted more records than the store has rows: an upsert hit a key
\* that was already stored
C3_Witness ==
    \E slot \in Slots :
        /\ PastUpsert(run[slot])
        /\ run[slot].upserted > Cardinality(primary)
        /\ primary # {}

\* C4: no failure on the Diachron path makes a sync_* call raise.
C4_DiachronNeverFailsSync ==
    \A slot \in Slots :
        run[slot].result = "raised" =>
            run[slot].fail \notin {"diachron_writer", "diachron_convert"}

\* C5: a raw record without natural key or without parseable timestamp
\* reaches neither store and is not counted.
LacksRequired(r) == r.key = "none" \/ ParseDatetime(r.ts_fmt, r.ts_t) = 0

RECURSIVE CountUsable(_)
CountUsable(q) ==
    IF q = <<>> THEN 0
    ELSE (IF LacksRequired(Head(q)) THEN 0 ELSE 1) + CountUsable(Tail(q))

C5_TransformerRejection ==
    /\ \A row \in primary : row.key # "none" /\ row.anchor # 0
    /\ \A f \in facts : f.external_id # "none"
    /\ \A slot \in Slots : run[slot].upserted <= CountUsable(run[slot].records)

\* C6: while a broadcast is sending (the registry is locked), every
\* registered subscriber whose send has completed holds exactly one
\* call_update whose data is the sub-list of the calls matching its
\* subscription, or nothing when that sub-list is empty; a subscriber still
\* waiting, or not registered, holds nothing; and a finished broadcast has
\* delivered at most one message per websocket, none for an empty call list.
C6_BroadcastDelivery ==
    /\ bc.phase = "sending" =>
         \A w \in WS :
            LET m == IF w \in DOMAIN connections
                     THEN MatchingCalls(connections[w], bc.calls) ELSE <<>>
            IN  IF w \in bc.pending \/ w \in bc.failed \/ m = <<>>
                THEN bc.delivered[w] = <<>>
                ELSE bc.delivered[w] = <<CallUpdateMessage(m)>>
    /\ bc.phase = "done" =>
         \A w \in WS :
            /\ bc.delivered[w] \in {<<>>, <<CallUpdateMessage(bc.plan[w])>>}
            /\ (bc.plan[w] = <<>> \/ bc.calls = <<>>) => bc.delivered[w] = <<>>
            /\ (bc.plan[w] # <<>> /\ w \notin bc.failed) => bc.delivered[w] # <<>>

\* one priority-A call inside the viewport went to a priorities={A}
\* subscriber and not to a priorities={C} subscriber
C6_Witness ==
    /\ bc.phase = "done"
    /\ bc.calls = <<Call("A", Coords(1, 1))>>
    /\ \E w1 \in DOMAIN connections, w2 \in DOMAIN connections :
         /\ connections[w1].priorities = {"A"}
         /\ connections[w2].priorities = {"C"}
         /\ bc.delivered[w1] = <<CallUpdateMessage(bc.calls)>>
         /\ bc.delivered[w2] = <<>>

\* viewport-only subscriber: the same call reaches it, a call outside does not
C6_WitnessViewport ==
    /\ bc.phase = "done"
    /\ bc.calls = <<Call("A", Coords(1, 1)), Call("C", Coords(2, 1))>>
    /\ \E w \in DOMAIN connections :
         /\ connections[w] = [viewport |-> VP(0, 1, 0, 1), priorities |-> {}]
         /\ bc.delivered[w] = <<CallUpdateMessage(<<Call("A", Coords(1, 1))>>)>>

\* C7: a call matches a subscription iff (no priority set is configured or
\* the call's priority is in it) and (no viewport is configured, or the call
\* has no coordinates, or they lie within the viewport, bounds inclusive);
\* a subscription as connect registers it matches every call.
MatchRule(sub, c) ==
    /\ sub.priorities = {} \/ c.priority \in sub.priorities
    /\ \/ ~sub.viewport.set
       \/ ~c.coordinates.set
       \/ /\ sub.viewport.min_lat <= c.coordinates.latitude
          /\ c.coordinates.latitude <= sub.viewport.max_lat
          /\ sub.viewport.min_lng <= c.coordinates.longitude
          /\ c.coordinates.longitude <= sub.viewport.max_lng

C7_MatchRule ==
    /\ [](\A w \in DOMAIN connections, c \in AllCalls :
             Matches(connections[w], c) <=> MatchRule(connections[w], c))
    /\ [][\A w \in WS :
             (w \notin DOMAIN connections /\ w \in DOMAIN connections')
                 => \A c \in AllCalls : Matches(connections'[w], c)]_vars

\* a subscriber with both filters set was sent a call on the viewport's edge
C7_Witness ==
    /\ bc.phase = "done"
    /\ \E w \in DOMAIN connections :
         /\ connections[w] = [viewport |-> VP(0, 1, 0, 1), priorities |-> {"A", "C"}]
         /\ bc.delivered[w] = <<CallUpdateMessage(<<Call("A", Coords(1, 1))>>)>>
         /\ Len(bc.calls) = 2

\* C8: a failed send does not end the broadcast: once it is done every other
\* task has delivered its message; the registry does not change while the
\* broadcast sends; a disconnect is scheduled only for a websocket whose send
\* failed, and its task removes that websocket and no other.
C8_FailureIsolation ==
    /\ [](bc.phase = "done" =>
            \A w \in bc.tasks \ bc.failed :
                bc.delivered[w] = <<CallUpdateMessage(bc.plan[w])>>)
    /\ [][/\ bc.phase = "sending" => connections' = connections
          /\ (disconnects' \ disconnects) \subseteq bc'.failed
          /\ disconnects' # disconnects =>
                (DOMAIN connections) \ (DOMAIN connections')
                    \subseteq (disconnects \ disconnects')]_vars

\* one send failed, the other subscriber got its message, and the failed
\* websocket alone has been unregistered
C8_Witness ==
    /\ bc.phase = "done"
    /\ \E w1 \in WS, w2 \in WS :
         /\ bc.failed = {w1}
         /\ bc.tasks = {w1, w2}
         /\ w1 # w2
         /\ bc.delivered[w2] # <<>>
         /\ DOMAIN connections = {w2}
         /\ disconnects = {}

\* C9: a call makes at most max_retries HTTP attempts and ends; with the
\* default budget, three 429 responses in a row are the whole call: exactly
\* three attempts, then SODAClientError.
RateLimited(resp) == resp.kind = "response" /\ resp.status = 429

C9_RetryBudget ==
    /\ [](/\ Len(rq.log) <= rq.max_retries
          /\ (/\ rq.max_retries = max_retries
              /\ Len(rq.log) >= 3
              /\ \A i \in 1..3 : RateLimited(rq.log[i]))
                 => /\ Len(rq.log) = 3
                    /\ rq.pc = "done" => rq.result = "SODAClientError")
    /\ <>(rq.pc = "done")

\* the default client was rate limited three times and gave up
C9_Witness ==
    /\ rq.max_retries = max_retries
    /\ Len(rq.log) = 3
    /\ \A i \in 1..3 : RateLimited(rq.log[i])
    /\ rq.pc = "done"
    /\ rq.result = "SODAClientError"

Succeeded(resp) == resp.kind = "response" /\ resp.status < 400 /\ resp.json_ok

StatusRetryable(resp) ==
    resp.kind = "response" /\ (resp.status = 429 \/ resp.status >= 500)

\* the call ended with attempt i
EndedWith(i) == i = Len(rq.log) /\ rq.pc = "done" /\ rq.result # "json"

\* C10 as stated: an attempt that fails in any way other than a 429 or 5xx
\* response is made once: the call fails with it and makes no further attempt.
C10_OnlyStatusRetried ==
    \A i \in 1..Len(rq.log) :
        (~Succeeded(rq.log[i]) /\ ~StatusRetryable(rq.log[i])) => EndedWith(i)

\* C10 amended: a 429 response, a 5xx response and a transport-level request
\* error are retried while the budget lasts; an attempt that fails in any
\* other way (another status, an undecodable body) ends the call with its
\* exception, without a sleep and without another attempt.
C10_RetriedFailures ==
    \A i \in 1..Len(rq.log) :
        LET f == rq.log[i]
        IN  /\ (~Succeeded(f) /\ ~StatusRetryable(f) /\ f.kind # "request_error")
                  => EndedWith(i) /\ Len(rq.slept) = i - 1
            /\ (StatusRetryable(f) \/ f.kind = "request_error")
                  => \/ i < Len(rq.log)
                     \/ rq.pc \in {"sleep", "loop"}
                     \/ i = rq.max_retries /\ EndedWith(i)

\* a request error was retried, and the 404 that came next ended the call
C10_Witness ==
    /\ Len(rq.log) = 2
    /\ rq.log[1].kind = "request_error"
    /\ rq.log[2] = Resp("response", 404, TRUE)
    /\ rq.pc = "done"
    /\ rq.result = "SODAClientError"
    /\ rq.slept = <<1>>

\* the rows holding the (external_id, kind_code) pair of f
SamePair(rows, f) ==
    {x \in rows : x.external_id = f.external_id /\ x.kind_code = f.kind_code}

IdsOf(rows) == {x.id : x \in rows}

\* the step is the write of w by write_fact or by a pass of write_facts_batch
Writes(w) ==
    \/ WriteFactCall(w)
    \/ wr.pc = "batch" /\ wr.todo # <<>> /\ Head(wr.todo) = w /\ BatchStep

\* C11: a write of a fact whose (external_id, kind_code) pair already has a
\* row leaves one row for the pair and the ids of all rows as they were, and
\* is an update: write_fact returns the stored id, write_facts_batch counts
\* it in updated and not in inserted.
C11_FactUpsertIdempotent ==
    [][\A w \in WriterFacts :
          (w.fact.kind_code \in KnownKinds /\ SamePair(facts, w.fact) # {} /\ Writes(w))
              => /\ IdsOf(facts') = IdsOf(facts)
                 /\ Cardinality(SamePair(facts', w.fact)) = 1
                 /\ wr'.inserted = wr.inserted
                 /\ wr.pc = "batch" => wr'.updated = wr.updated + 1
                 /\ wr.pc = "idle" => wr'.returned \in IdsOf(SamePair(facts, w.fact))]_vars

\* within the dedup threshold
Close(p, q) == Distance(p, q) <= DedupMetres

\* the step resolved w's coordinate to the location id lid
ResolvesTo(w, lid) ==
    /\ [pos |-> w.pos, loc |-> lid] \in wr'.resolved
    /\ wr'.resolved = wr.resolved \cup {[pos |-> w.pos, loc |-> lid]}

ReusesCloseLocation ==
    \A w \in WriterFacts :
        (w.fact.kind_code \in KnownKinds /\ Writes(w)
         /\ \E l \in locations : Close(l.pos, w.pos))
            => /\ locations' = locations
               /\ \E l \in locations : Close(l.pos, w.pos) /\ ResolvesTo(w, l.id)

NoCloseLocations ==
    \A l1 \in locations, l2 \in locations : l1 # l2 => ~Close(l1.pos, l2.pos)

\* C12 as stated: a fact within 10 m of a stored Location reuses a stored
\* Location within 10 m and adds none; two facts more than 10 m apart
\* resolve to distinct Location ids; no two stored Locations are within 10 m.
C12_LocationDedup ==
    /\ [][ReusesCloseLocation]_vars
    /\ [](\A a \in wr.resolved, b \in wr.resolved :
             ~Close(a.pos, b.pos) => a.loc # b.loc)
    /\ []NoCloseLocations

\* C12 amended: a fact within 10 m of a stored Location reuses a stored
\* Location within 10 m and adds none; a fact more than 10 m from every
\* stored Location adds one Location at its coordinate under an id no stored
\* Location has, and resolves to it; every fact resolves to a Location within
\* 10 m of it; no two stored Locations are within 10 m, with distinct ids.
C12_FindOrCreate ==
    /\ [][ReusesCloseLocation]_vars
    /\ [][\A w \in WriterFacts :
            (w.fact.kind_code \in KnownKinds /\ Writes(w)
             /\ \A l \in locations : ~Close(l.pos, w.pos))
                => \E n \in locations' :
                      /\ locations' = locations \cup {n}
                      /\ n.pos = w.pos
                      /\ n.id \notin IdsOf(locations)
                      /\ ResolvesTo(w, n.id)]_vars
    /\ [](\A a \in wr.resolved :
             \E l \in locations : l.id = a.loc /\ Close(l.pos, a.pos))
    /\ [](NoCloseLocations /\ \A l1 \in locations, l2 \in locations :
                                 l1.id = l2.id => l1 = l2)

\* two facts more than 10 m apart have both resolved to the one stored
\* Location, which lies between them
C12_Witness ==
    /\ Cardinality(locations) = 1
    /\ \E a \in wr.resolved, b \in wr.resolved, l \in locations :
          /\ ~Close(a.pos, b.pos)
          /\ a.loc = l.id /\ b.loc = l.id
          /\ a.pos < l.pos /\ l.pos < b.pos

\* C13: a raw record whose coordinates lie outside the regional box is
\* rejected: no run transforms it, no primary row carries such coordinates,
\* and the adapter makes no fact of it.
C13_BoundingBoxRejection ==
    /\ \A row \in primary : row.loc # "out"
    /\ \A slot \in Slots : \A i \in 1..Len(run[slot].transformed) :
           run[slot].transformed[i].loc # "out"
    /\ \A r \in MenuOf(src) : r.pt = "out" => ToFact(src, r) = Reject

\* C14: a run whose fetch fails ends raised with nothing fetched or upserted;
\* the failing step changes neither the checkpoint nor a row of either
\* store (with no other run of the source about, the checkpoint is the one
\* the run read); the run does nothing more: the only step its trigger takes
\* next is the start of a new run, which reads the watermark as it stands
\* (the same one the failed run read when no other run has been about).
C14_FetchFailureAborts ==
    /\ [](\A slot \in Slots :
            run[slot].fail = "fetch" =>
                /\ run[slot].pc = "done" /\ run[slot].result = "raised"
                /\ run[slot].records = <<>> /\ run[slot].upserted = 0
                /\ run[OtherSlot(slot)].pc = "idle"
                       => cp[src].last_updated_at = run[slot].cp0)
    /\ [][\A slot \in Slots :
            /\ (run[slot].pc = "fetching" /\ run'[slot].fail = "fetch")
                   => cp' = cp /\ primary' = primary /\ facts' = facts
            /\ (run[slot].fail = "fetch" /\ run'[slot] # run[slot])
                   => /\ run'[slot].pc = "fetching"
                      /\ nruns' = nruns + 1
                      /\ run'[slot].cp0 = cp[src].last_updated_at
                      /\ run[OtherSlot(slot)].pc = "idle"
                             => run'[slot].cp0 = run[slot].cp0]_vars

\* the fetch of a run failed with rows and a checkpoint already stored
C14_Witness ==
    /\ run["sched"].fail = "fetch"
    /\ primary # {}
    /\ cp[src].last_updated_at # 0
    /\ run["sched"].cp0 = cp[src].last_updated_at
\* the step is the checkpoint write of a sync run whose batches are committed
IsCheckpointWrite ==
    \E slot \in Slots : run[slot].pc = "checkpoint" /\ run'[slot].pc = "diachron"

\* C15: a checkpoint row, once created, is never deleted, and every change
\* of a checkpoint row is the post-commit write of a sync run; no other
\* operation removes or modifies it.
C15_CheckpointOwnership ==
    [][\A s \in Sources :
          /\ cp[s] # NoCheckpoint => cp'[s] # NoCheckpoint
          /\ cp'[s] # cp[s] => IsCheckpointWrite]_vars

\* C16: no step of sync_incident_reports_range, whatever the range and
\* however the call ends, changes a checkpoint row or writes to the
\* secondary store.
C16_RangeLeavesCheckpoint ==
    [][backfill' # backfill =>
          /\ cp' = cp
          /\ facts' = facts /\ locations' = locations /\ writer' = writer]_vars

\* a range call returned after upserting rows newer than the stored watermark
C16_Witness ==
    /\ backfill.pc = "done" /\ backfill.result = "returned" /\ backfill.upserted > 0
    /\ cp["incident_reports"] # NoCheckpoint
    /\ \E i \in 1..Len(backfill.transformed) :
          /\ backfill.transformed[i].anchor > cp["incident_reports"].last_updated_at
          /\ \E row \in primary : row.key = backfill.transformed[i].key
                                   /\ row.anchor = backfill.transformed[i].anchor

\* the run is between its read of the watermark and the end of its
\* checkpoint advance
InProgress(r) == r.pc \in {"fetching", "upserting", "checkpoint"}

\* C17: at no point are two sync runs of the same source in progress
\* together, whichever triggers started them.
C17_OneRunAtATime ==
    \A s1 \in Slots, s2 \in Slots :
        s1 # s2 => ~(InProgress(run[s1]) /\ InProgress(run[s2]))

\* C18: the lock is held for accesses to the connection map only, never
\* across a send: while a send is in progress the lock is free, so connect,
\* disconnect and update_subscription need not wait for it.
C18_LockScopedToMap == bc.pending # {} => lock = "free"

\* C19: when broadcast has returned, no connection whose send failed in it
\* is still registered.
C19_TornDownAtReturn ==
    bc.phase = "done" => \A w \in bc.failed : w \notin DOMAIN connections

\* C20: a dispatch job that has committed its upserts and awaits the fan-out
\* goes on to prune and returns to idle, whether or not the sends to its
\* subscribers ever complete.
C20_FanOutDoesNotBlock == (job.pc = "broadcast") ~> (job.pc = "idle")

\* the record is one the transformer accepts and it has a row of its key
Usable(r) == Accepts(src, r)
Merged(r) == \E row \in primary : row.key = r.key

\* C21: a usable source record whose last-updated value lies below the
\* stored watermark is in the primary store once a later run of the source
\* has returned. Stated for dispatch calls, whose first run fetches without
\* a lower bound: there a record below the watermark that a run has not
\* merged became visible after the watermark had passed it.
C21_OutOfOrderArrival ==
    (/\ src = "dispatch_calls"
     /\ run["sched"].pc = "done" /\ run["sched"].result = "returned")
        => \A r \in upstream :
              (/\ Usable(r)
               /\ SourceUpdated(src, r) > 0
               /\ SourceUpdated(src, r) < cp[src].last_updated_at)
                  => Merged(r)

\* C22: every fact an adapter hands over has valid_to >= valid_from when
\* valid_to is present, and its range has its lower bound strictly before
\* its upper bound.
C22_ValidRange ==
    /\ conv.pc \in {"fact", "range"} /\ conv.valid_to # 0
          => conv.valid_to >= conv.valid_from
    /\ conv.pc = "range" => conv.lower < conv.upper

\* C23: the interval is [date(valid_from), E) with E = date(valid_to) when
\* valid_to is present and E = date(valid_from) + 1 day otherwise.
C23_IntervalEndsAtValidTo ==
    conv.pc = "range" =>
        /\ conv.lower = Date(conv.valid_from)
        /\ conv.upper = IF conv.valid_to # 0 THEN Date(conv.valid_to)
                         ELSE Date(conv.valid_from) + 1

\* C23 as the code has it: E is the day after valid_to when valid_to is
\* present, the day after valid_from otherwise; a fact without valid_to, or
\* closed on the day it began, spans exactly one day.
C23_IntervalThroughValidTo ==
    conv.pc = "range" =>
        /\ conv.lower = Date(conv.valid_from)
        /\ conv.upper = 1 + Date(IF conv.valid_to # 0 THEN conv.valid_to
                                  ELSE conv.valid_from)
        /\ (conv.valid_to = 0 \/ Date(conv.valid_to) = Date(conv.valid_from))
              => conv.upper = conv.lower + 1

\* a call closed later on the day it was received has its one-day range,
\* and so has an incident, which carries no valid_to
C23_Witness ==
    /\ conv.pc = "range"
    /\ \/ /\ conv.valid_to > conv.valid_from
          /\ Date(conv.valid_to) = Date(conv.valid_from)
          /\ conv.upper = conv.lower + 1
       \/ /\ conv.kind_code = "police_incident"
          /\ conv.upper = conv.lower + 1

\* the facts of a batch whose kind_code is known
KnownInBatch(fs) == {i \in 1..Len(fs) : fs[i].fact.kind_code \in KnownKinds}

\* C24: when write_facts_batch fails, the facts and the locations are what
\* they were when the call began, whatever the batch had written before the
\* failure; when it succeeds, inserted + updated is the number of facts of
\* the batch whose kind_code is known.
C24_BatchAllOrNothing ==
    [][wr.pc = "batch" /\ wr'.pc = "idle" =>
          IF wr'.outcome = "rolled_back"
          THEN facts' = wr.begin.facts /\ locations' = wr.begin.locations
          ELSE /\ wr'.outcome = "committed"
               /\ wr'.inserted + wr'.updated = Cardinality(KnownInBatch(wr.batch))
               /\ facts' = facts /\ locations' = locations]_vars

\* a batch failed after it had inserted a fact together with a new
\* location, and neither row is left
C24_Witness ==
    /\ wr.pc = "idle" /\ wr.outcome = "rolled_back"
    /\ wr.inserted = 1
    /\ facts = {} /\ locations = {}

\* the pagination rule for the calls of the variants vs: requests at offsets
\* 0, batch_size, 2*batch_size, ..; the loop goes on only below the limit
\* and after non-empty pages; a call that returned stopped at its first
\* empty page or with its offset at the limit, and holds the non-empty
\* pages in request order; the default batch size against an endless
\* source takes limit / batch_size requests.
PaginationRule(vs) ==
    pg.variant \in vs /\ pg.pc # "idle" =>
        /\ \A i \in 1..Len(pg.offsets) : pg.offsets[i] = (i - 1) * pg.batch_size
        /\ \A i \in 1..Len(pg.all_records) :
              /\ pg.all_records[i] = Page(pg.total, (i - 1) * pg.batch_size, pg.batch_size)
              /\ ~IsEmpty(pg.all_records[i])
        /\ \A i \in 1..Len(pg.offsets) : pg.offsets[i] < SafetyLimit(pg.variant)
        /\ pg.pc = "loop" => /\ pg.offset < SafetyLimit(pg.variant)
                             /\ Len(pg.all_records) = Len(pg.offsets)
        /\ pg.pc = "done" =>
              \/ /\ pg.result = "returned"
                 /\ Len(pg.offsets) >= 1
                 /\ \/ /\ Len(pg.all_records) = Len(pg.offsets) - 1
                       /\ IsEmpty(Page(pg.total, pg.offset, pg.batch_size))
                    \/ /\ Len(pg.all_records) = Len(pg.offsets)
                       /\ pg.offset >= SafetyLimit(pg.variant)
              \/ /\ pg.result = "raised"
                 /\ Len(pg.offsets) = Len(pg.all_records) + 1
        /\ (/\ pg.pc = "done" /\ pg.result = "returned"
            /\ pg.batch_size = default_batch_size /\ pg.total = Endless)
              => Len(pg.offsets) * default_batch_size = SafetyLimit(pg.variant)

\* C25: every paginated fetch, the range variant included, follows the
\* pagination rule: it ends by an empty page, by the limit (50,000, or
\* 100,000 for the range variant) or by a failed request, and with
\* batch_size 1000 against an endless source after exactly 50 requests.
C25_PaginationStops ==
    /\ PaginationRule(Variants)
    /\ (/\ pg.pc = "done" /\ pg.result = "returned" /\ pg.variant # "range"
        /\ pg.batch_size = default_batch_size /\ pg.total = Endless)
          => Len(pg.offsets) = 50

\* C26: disconnect of a websocket that is not registered changes nothing;
\* update_subscription for a websocket that is not registered changes no
\* subscription; update_subscription for a registered one sets the filters
\* it was given and leaves the other filter of that subscription and every
\* other subscription as they were.
C26_HubFrame ==
    [][\A w \in WS :
          /\ (w \notin DOMAIN connections /\ Disconnect(w)) => UNCHANGED vars
          /\ \A va \in ViewportArgs, pa \in PriorityArgs :
                UpdateSubscription(w, va, pa) =>
                    /\ DOMAIN connections' = DOMAIN connections
                    /\ \A x \in DOMAIN connections : x # w => connections'[x] = connections[x]
                    /\ w \in DOMAIN connections =>
                          /\ connections'[w].viewport =
                                IF va.given THEN va.viewport ELSE connections[w].viewport
                          /\ connections'[w].priorities =
                                IF pa.given THEN pa.priorities ELSE connections[w].priorities]_vars

\* a subscription holds a viewport and priorities (no single update of the
\* model's menu with one argument left out gives both to a new
\* subscription), next to a second subscription still without filters
C26_Witness ==
    \E w \in DOMAIN connections, x \in DOMAIN connections :
        /\ connections[w].viewport.set /\ connections[w].priorities = {"A"}
        /\ connections[x] = NewSubscription

\* the greatest last-updated value among the values vs (0 when none has one)
MaxUpdated(vs) ==
    LET us == {UpdatedOf(src, vs[i]) : i \in 1..Len(vs)} \cup {0}
    IN  CHOOSE u \in us : \A x \in us : x <= u

\* C27: the checkpoint is written only by the checkpoint step of a run, with
\* every upsert batch of the run committed; what it writes is the maximum of
\* the watermark the run read and the last-updated values of all its
\* transformed records (nothing is written when there is no such value),
\* which is the maximum with the stored watermark when no other run of the
\* source has been started; a run without transformed records leaves the
\* watermark value as it is.
C27_WatermarkAdvance ==
    [][/\ cp' # cp => \E slot \in Slots : run[slot].pc = "checkpoint" /\ run'[slot] # run[slot]
       /\ \A slot \in Slots :
            LET r == run[slot]
                top == Max(r.cp0, MaxUpdated(r.transformed))
            IN  /\ (r.pc = "checkpoint" /\ run'[slot] # r) =>
                      /\ r.idx >= Len(r.transformed)
                      /\ \A i \in 1..Len(r.transformed) : RowsWithKey(r.transformed[i].key) # {}
                      /\ IF top = 0 THEN cp' = cp
                         ELSE cp'[src].last_updated_at = top
                      /\ run[OtherSlot(slot)].pc = "idle" =>
                            cp'[src].last_updated_at =
                                Max(cp[src].last_updated_at, MaxUpdated(r.transformed))
                /\ (r.pc \notin {"idle", "done"} /\ run'[slot] # r /\ r.transformed = <<>>
                    /\ run'[slot].transformed = <<>>) =>
                      cp'[src].last_updated_at = cp[src].last_updated_at]_vars

\* a run that read watermark 1 has written watermark 2, the value of a
\* record it transformed
C27_Witness ==
    /\ run["sched"].pc = "diachron"
    /\ run["sched"].cp0 = 1
    /\ cp[src].last_updated_at = 2
    /\ MaxUpdated(run["sched"].transformed) = 2

\* the lower bound of a run's fetch is an instant and the seed of a first run
\* is not stored, for the sources vs
SeededFirstRun(vs) ==
    src \in vs =>
      \A slot \in SlotsOf(src) :
        LET r == run[slot]
        IN  /\ (r.pc # "idle" /\ r.cp0 = 0) => r.since \in SeedTimes
            /\ (r.pc = "done" /\ r.result = "returned" /\ r.cp0 = 0 /\ r.transformed = <<>>
                /\ run[OtherSlot(slot)].pc = "idle") => cp[src] = NoCheckpoint

\* C28: a run of a source without checkpoint, dispatch calls included,
\* fetches with an instant as lower bound (the current time minus the
\* lookback), never without one, and does not store that seed as watermark.
C28_FirstRunSeeded == SeededFirstRun(Sources)


\* C29: the fetch of an incremental run returns every source record whose
\* last-updated value is at or above the stored watermark the run read, the
\* record that set the watermark included.
C29_InclusiveBoundary ==
    [][\A slot \in Slots :
         (/\ run[slot].pc = "fetching"
          /\ run[slot].cp0 # 0
          /\ run'[slot].pc # "fetching"
          /\ run'[slot].fail = "none") =>
            \A u \in upstream :
                SourceUpdated(src, u) >= run[slot].cp0 =>
                    \E n \in 1..Len(run'[slot].records) : run'[slot].records[n] = u]_vars
\* C30: the records a run upserts hold each natural key at most once (the
\* fetched records are deduplicated by key before upserting, the last-seen
\* record of a key being the one kept).
C30_DedupByKey ==
    \A slot \in Slots :
        LET vs == run[slot].transformed
            q == run[slot].records
        IN  /\ \A i, j \in 1..Len(vs) : i # j => vs[i].key # vs[j].key
            /\ \A i \in 1..Len(vs) :
                 \A n \in 1..Len(q) :
                    (Accepts(src, q[n]) /\ q[n].key = vs[i].key) =>
                        \E l \in n..Len(q) : vs[i] = ValuesOf(src, q[l])

\* C31: a backfill call over start..end transforms, for upserting, exactly
\* the usable source records with start <= report_datetime < end: none at or
\* after end, so that the chunks [a, b) and [b, c) share no record.
C31_HalfOpenRange ==
    [][(/\ backfill.pc = "fetching"
        /\ backfill'.pc # "fetching"
        /\ backfill'.result # "raised") =>
          {backfill'.transformed[i] : i \in 1..Len(backfill'.transformed)} =
             {ValuesOf("incident_reports", u) :
                u \in {r \in upstream : /\ Accepts("incident_reports", r)
                                        /\ r.ts_t >= backfill.start_date
                                        /\ r.ts_t < backfill.end_date}}]_vars

\* C32: the prune step deletes exactly the dispatch rows with received_at
\* before the cutoff (clock - retention window), whichever job stored them,
\* keeps every other row as it is, leaves every checkpoint unchanged, and
\* leaves no row a second prune at the same time would delete.
C32_RetentionPruning ==
    [][(job.pc = "prune" /\ job'.pc = "idle") =>
          /\ primary' \subseteq primary
          /\ \A row \in primary : row \in primary' <=> row.anchor >= Cutoff
          /\ cp' = cp
          /\ {row \in primary' : row.anchor < Cutoff} = {}]_vars

\* the checkpoint counted two rows at the last sync and a prune at clock 3
\* has deleted the one received at instant 1 and kept the one received at 2
C32_Witness ==
    /\ job.pc = "idle"
    /\ clock = 3
    /\ cp["dispatch_calls"].record_count = 2
    /\ Cardinality(primary) = 1
    /\ \E row \in primary : row.anchor = 2

\* C38: whenever the scheduled dispatch job finishes, after a sync that
\* stored records, found nothing or raised, the table holds no row with
\* received_at before the cutoff (clock - retention window) of that moment.
C38_RetentionAfterJob ==
    [][(job.pc # "idle" /\ job'.pc = "idle") =>
          \A row \in primary' : row.anchor >= Cutoff]_vars

\* the wait after attempt index n is 10 * 2^n for a rate-limit response and
\* 2^n for the other retried failures
BackoffTimes ==
    /\ \A i \in 1..Len(rq.slept) :
          rq.slept[i] = IF RateLimited(rq.log[i]) THEN 10 * Pow2(i - 1) ELSE Pow2(i - 1)
    /\ rq.pc = "sleep" =>
          rq.wait = IF RateLimited(rq.log[Len(rq.log)]) THEN 10 * Pow2(rq.attempt)
                    ELSE Pow2(rq.attempt)
    /\ \A n \in 0..MaxBudget : 10 * Pow2(n) > Pow2(n)

\* C39: the waits are 10 * 2^attempt after a rate-limit response and
\* 2^attempt after a server error, the first larger than the second for
\* every attempt; a sleep is only taken before another attempt: the call
\* does not sleep after the last attempt of its budget.
C39_BackoffBeforeRetryOnly ==
    /\ BackoffTimes
    /\ rq.pc = "sleep" => Len(rq.log) < rq.max_retries
    /\ Len(rq.slept) <= Max(rq.max_retries - 1, 0)

\* C37: a connection whose send failed in a broadcast is eventually out of
\* the connection map, by the disconnect task _send_safe scheduled alone;
\* and a send is only ever attempted to a registered connection.
C37_FailedEventuallyRemoved ==
    /\ \A w \in WS : (w \in bc.failed /\ w \in DOMAIN connections) ~> (w \notin DOMAIN connections)
    /\ [][\A w \in WS : (w \in bc'.pending /\ w \notin bc.pending) => w \in DOMAIN connections]_vars

\* the location_id of the fact row x
LocationIdOf(x) == {p.loc : p \in {q \in wr.linked : q.fact = x.id}}

\* C36: every stored Location is the location_id of a stored Fact; a write
\* adds a Location only when it inserts a Fact; the re-write of a stored
\* (external_id, kind_code) pair adds no Location and leaves the row's
\* location_id equal to the Location the write resolved.
C36_NoOrphanLocation ==
    /\ [](\A l \in locations : \E x \in facts : l.id \in LocationIdOf(x))
    /\ [][\A w \in WriterFacts :
            (w.fact.kind_code \in KnownKinds /\ Writes(w)) =>
                /\ locations' # locations => IdsOf(facts') # IdsOf(facts)
                /\ SamePair(facts, w.fact) # {} =>
                      /\ locations' = locations
                      /\ \A x \in SamePair(facts', w.fact) :
                            \E p \in wr'.linked :
                                p.fact = x.id /\ ResolvesTo(w, p.loc)]_vars

\* C35: however two write_facts_batch transactions interleave, the stored
\* Fact rows never hold an (external_id, kind_code) pair twice and no two
\* stored Locations lie within 10 m of each other.
C35_RaceFreeIdentity ==
    /\ \A x \in facts, y \in facts :
          (x.external_id # "none" /\ x.external_id = y.external_id
           /\ x.kind_code = y.kind_code) => x = y
    /\ NoCloseLocations

\* the version r of a source record is the one stored
Stored(r) ==
    \E row \in primary : row.key = r.key /\ row.upd = ValuesOf(src, r).upd

\* C33: a run that returned after moving the watermark from w0 to w1 has
\* stored every usable source record it could fetch whose last-updated value
\* lies in (w0, w1], also when the window held more records than the
\* safety limit of the fetch lets through.
C33_NoUpdateSkipped ==
    \A slot \in Slots :
        LET r == run[slot]
        IN  (/\ r.pc = "done" /\ r.result = "returned"
             /\ r.cp0 # 0
             /\ cp[src].last_updated_at > r.cp0) =>
               \A u \in upstream :
                  (/\ Usable(u)
                   /\ SourceUpdated(src, u) > r.cp0
                   /\ SourceUpdated(src, u) <= cp[src].last_updated_at) => Stored(u)

\* the greatest last-updated value among the versions of key k in vs
FreshestOf(vs, k) ==
    LET ups == {UpdatedOf(src, vs[i]) : i \in {j \in 1..Len(vs) : vs[j].key = k}}
    IN  CHOOSE u \in ups : \A w \in ups : w <= u

\* C34: when a run has upserted what it fetched, the row stored under each
\* fetched key is the version with the greatest last-updated value among
\* the fetched versions of that key, and no step of a sync run lowers the
\* last-updated value of a stored row.
C34_FreshestVersionWins ==
    [][/\ \A slot \in Slots :
            (run[slot].pc = "upserting" /\ run'[slot].pc = "checkpoint") =>
               \A i \in 1..Len(run[slot].transformed) :
                  \E row \in primary' :
                     /\ row.key = run[slot].transformed[i].key
                     /\ UpdatedOf(src, row) = FreshestOf(run[slot].transformed, row.key)
       /\ \A row \in primary : \A new \in primary' :
            new.key = row.key => UpdatedOf(src, new) >= UpdatedOf(src, row)]_vars
====
